---- MODULE Spec2Model ----
(***************************************************************************)
(* LTTng counter library: the dimension table and index helpers            *)
(* (counter/counter-types.h, counter/counter-internal.h,                   *)
(* counter/counter-api.h) and the counter engine (counter.c).              *)
(*                                                                         *)
(* Cell values, deltas and steps are C integers of up to 64 bits.  They    *)
(* are written here as exact integers in base 2^16,                        *)
(*     <<h, a, b, c>>  standing for  h*2^48 + a*2^32 + b*2^16 + c,         *)
(* with a, b, c in 0..65535 and h any (signed) integer, so that the casts  *)
(* and the unsigned wraparound of every cell width are computed as the C   *)
(* code computes them.                                                     *)
(***************************************************************************)
EXTENDS Integers, Sequences, FiniteSets, TLC

(***************************************************************************)
(* Exact integers.                                                         *)
(***************************************************************************)
ZBase == 2 ^ 16

ZNorm(h, a, b, c) ==
    LET c1 == c % ZBase
        kb == b + (c \div ZBase)
        b1 == kb % ZBase
        ka == a + (kb \div ZBase)
        a1 == ka % ZBase
        h1 == h + (ka \div ZBase)
    IN  <<h1, a1, b1, c1>>

ZInt(i) == ZNorm(0, 0, 0, i)

ZAdd(x, y) == ZNorm(x[1] + y[1], x[2] + y[2], x[3] + y[3], x[4] + y[4])

ZNeg(x) == ZNorm(-x[1], -x[2], -x[3], -x[4])

ZSub(x, y) == ZNorm(x[1] - y[1], x[2] - y[2], x[3] - y[3], x[4] - y[4])

ZLt(x, y) ==
    \/ x[1] < y[1]
    \/ x[1] = y[1] /\ x[2] < y[2]
    \/ x[1] = y[1] /\ x[2] = y[2] /\ x[3] < y[3]
    \/ x[1] = y[1] /\ x[2] = y[2] /\ x[3] = y[3] /\ x[4] < y[4]

ZLe(x, y) == x = y \/ ZLt(x, y)

ZZero == <<0, 0, 0, 0>>

\* the element of a set of one element: {F(x) : x \in {e}} computes e once
Only(S) == CHOOSE r \in S : TRUE

\* 2^k for 0 <= k < 80
ZPow2(k) ==
    LET limb == k \div 16
        bit  == 2 ^ (k % 16)
    IN  CASE limb = 0 -> <<0, 0, 0, bit>>
          [] limb = 1 -> <<0, 0, bit, 0>>
          [] limb = 2 -> <<0, bit, 0, 0>>
          [] OTHER    -> <<bit * (ZBase ^ (limb - 3)), 0, 0, 0>>

\* x / 2 as C computes it on signed operands (the quotient truncates toward 0)
ZHalfFloor(x) ==
    LET a == x[2] + ZBase * (x[1] % 2)
        b == x[3] + ZBase * (a % 2)
        c == x[4] + ZBase * (b % 2)
    IN  <<x[1] \div 2, a \div 2, b \div 2, c \div 2>>

ZDiv2(x) == IF ZLt(x, ZZero) THEN ZNeg(ZHalfFloor(ZNeg(x))) ELSE ZHalfFloor(x)

\* x modulo 2^bits: the cast to uintN_t
ToUnsigned(x, bits) ==
    CASE bits = 8  -> <<0, 0, 0, x[4] % 256>>
      [] bits = 16 -> <<0, 0, 0, x[4]>>
      [] bits = 32 -> <<0, 0, x[3], x[4]>>
      [] bits = 64 -> <<x[1] % ZBase, x[2], x[3], x[4]>>

\* the cast to intN_t: the low bits, read as two's complement
ToSigned(x, bits) ==
    Only({IF ZLt(u, ZPow2(bits - 1)) THEN u ELSE ZSub(u, ZPow2(bits)) :
             u \in {ToUnsigned(x, bits)}})

SMax(bits) == ZSub(ZPow2(bits - 1), ZInt(1))
SMin(bits) == ZNeg(ZPow2(bits - 1))
UMax(bits) == ZSub(ZPow2(bits), ZInt(1))

(***************************************************************************)
(* Configuration (counter/config.h).                                       *)
(***************************************************************************)
COUNTER_ALLOC_PER_CPU == "COUNTER_ALLOC_PER_CPU"
COUNTER_ALLOC_GLOBAL  == "COUNTER_ALLOC_GLOBAL"
COUNTER_SYNC_PER_CPU  == "COUNTER_SYNC_PER_CPU"
COUNTER_SYNC_GLOBAL   == "COUNTER_SYNC_GLOBAL"
COUNTER_ARITHMETIC_OVERFLOW == "COUNTER_ARITHMETIC_OVERFLOW"
COUNTER_ARITHMETIC_SATURATE == "COUNTER_ARITHMETIC_SATURATE"
COUNTER_SIZE_8_BIT  == 1
COUNTER_SIZE_16_BIT == 2
COUNTER_SIZE_32_BIT == 4
COUNTER_SIZE_64_BIT == 8

CounterSizes == {COUNTER_SIZE_8_BIT, COUNTER_SIZE_16_BIT,
                 COUNTER_SIZE_32_BIT, COUNTER_SIZE_64_BIT}

\* width in bits of the cell type selected by counter_size (intN_t)
CellBits(counter_size) == 8 * counter_size

(***************************************************************************)
(* Bounds of the model.                                                    *)
(***************************************************************************)
MaxDims == 2       \* nr_dimensions ranges over 1..MaxDims
MaxElem == 2       \* max_nr_elem ranges over 0..MaxElem
IdxSlack == 2      \* indexes range over -IdxSlack..MaxElem+IdxSlack
MaxOps == 2        \* calls of the API in one run, with any delta
MaxIncs == 4       \* calls of the API in one run of increments and decrements
NrContexts == 2    \* concurrent execution contexts
MaxConcOps == 2    \* calls of the API in one run of concurrent contexts

VARIABLES
    config,            \* counter->config
    global_sum_step,   \* counter->global_sum_step (the member of the cell width)
    dimensions,        \* counter->dimensions[0..nr_dimensions-1], here 1..nr_dimensions
    allocated_elem,    \* counter->allocated_elem
    global_counters,   \* counter->global_counters: cells and the two bitmaps
    percpu_counters,   \* counter->percpu_counters: one layout per possible cpu, or NULL
    pc,                \* where each execution context stands in its current call
    loc,               \* each context's arguments, locals and out-parameters
    nops,              \* calls of the API started so far
    swapped,           \* per flat offset: the adds whose first compare-and-swap succeeded
    oob,               \* accesses made outside a layout's arrays: [layout, index]
    cur,               \* an index resolution: raw tuple, clamped tuple, flat offset
    handle,            \* what lttng_counter_create returned, and whether it was destroyed
    args,              \* the arguments of that lttng_counter_create
    heap,              \* the allocations of the counter's calls that are not freed
    frees,             \* per allocation: how many times it was passed to a free
    foreign,           \* frees of a pointer that no call of the counter allocated
    ptrs,              \* the three pointers of the global layout and of each cpu's
    touched,           \* cpus whose layout was reached through a NULL percpu_counters
    twin               \* a second counter, given the same calls

counterVars == <<config, global_sum_step, dimensions, allocated_elem>>
cellVars == <<global_counters, percpu_counters>>
ctxVars == <<pc, loc, nops>>
ghostVars == <<swapped, oob>>
idxVars == <<cur>>
lifeVars == <<handle, args, heap, frees, foreign, ptrs, touched>>
twinVars == <<twin>>
vars == <<counterVars, cellVars, ctxVars, ghostVars, idxVars, lifeVars, twinVars>>

(***************************************************************************)
(* Dimension table (counter.c) and index helpers (counter-api.h,           *)
(* counter-internal.h).                                                    *)
(***************************************************************************)
\* the two sentinel slots left out of the size of a dimension
nr_elements_without_sentinels(dimension) == dimension.max_nr_elem

\* Includes underflow and overflow elements.
lttng_counter_get_dimension_nr_elements(dimension) == dimension.max_nr_elem + 2

RECURSIVE NrElemProduct(_, _)
\* product of the allocated sizes of dimensions from..Len(dims)
NrElemProduct(dims, from) ==
    IF from > Len(dims) THEN 1
    ELSE lttng_counter_get_dimension_nr_elements(dims[from]) * NrElemProduct(dims, from + 1)

\* the loop runs from the innermost dimension outward, stride *= nr_elements
lttng_counter_init_stride(dims) ==
    [i \in 1..Len(dims) |->
        [max_nr_elem |-> dims[i].max_nr_elem, stride |-> NrElemProduct(dims, i + 1)]]

\* lttng_counter_create: the dimension table and allocated_elem it leaves
CreateDimensions(max_nr_elem) ==
    lttng_counter_init_stride(
        [i \in 1..Len(max_nr_elem) |-> [max_nr_elem |-> max_nr_elem[i], stride |-> 0]])

CreateAllocatedElem(dims) == NrElemProduct(dims, 1)

lttng_counter_underflow_index(dimension) == dimension.max_nr_elem + 1

lttng_counter_overflow_index(dimension) == dimension.max_nr_elem + 2

\* the upper test written > instead of >=
validate_indexes_upper_test_off_by_one(dims, dimension_indexes) ==
    [i \in 1..Len(dims) |->
        IF dimension_indexes[i] < 0
        THEN lttng_counter_underflow_index(dims[i])
        ELSE IF dimension_indexes[i] > dims[i].max_nr_elem
             THEN lttng_counter_overflow_index(dims[i])
             ELSE dimension_indexes[i]]

\* Update dimension_indexes if index is outside range.
lttng_counter_validate_indexes(dims, dimension_indexes) ==
    [i \in 1..Len(dims) |->
        IF dimension_indexes[i] < 0
        THEN lttng_counter_underflow_index(dims[i])
        ELSE IF dimension_indexes[i] >= dims[i].max_nr_elem
             THEN lttng_counter_overflow_index(dims[i])
             ELSE dimension_indexes[i]]

RECURSIVE IndexSum(_, _, _)
IndexSum(dims, dimension_indexes, i) ==
    IF i > Len(dims) THEN 0
    ELSE dimension_indexes[i] * dims[i].stride + IndexSum(dims, dimension_indexes, i + 1)

lttng_counter_get_index(dims, dimension_indexes) == IndexSum(dims, dimension_indexes, 1)

NoResolution == [raw |-> <<>>, clamped |-> <<>>, offset |-> 0]

(***************************************************************************)
(* Cell storage (struct lib_counter_layout).  kvzalloc leaves every cell 0 *)
(* and every bit clear.  A bitmap is the set of the indexes whose bit is   *)
(* set.                                                                    *)
(***************************************************************************)
NULL == "NULL"

\* the allocations are followed from lttng_counter_create on; a counter that is
\* taken as already created has none on record
\* no second counter
NoTwin == [created |-> FALSE]

NoLedger ==
    /\ handle = "untracked"
    /\ args = NULL
    /\ heap = {}
    /\ frees = <<>>
    /\ foreign = 0
    /\ ptrs = <<>>
    /\ touched = {}

NewLayout(nr_elem) ==
    [counters |-> [i \in 0..(nr_elem - 1) |-> ZZero],
     overflow_bitmap |-> {},
     underflow_bitmap |-> {}]

test_bit(index, bitmap) == index \in bitmap

set_bit(index, bitmap) == bitmap \cup {index}

(***************************************************************************)
(* __lttng_counter_add (counter-api.h), the arithmetic of one iteration of *)
(* its retry loop and its classification, for the cell type of `bits`      *)
(* bits.  v is the int64_t delta, step the counter's global_sum_step.      *)
(***************************************************************************)
\* n = (intN_t) ((uintN_t) old + (uintN_t) v)
\* the sum without the casts to the cell type
WrapAdd_uncast(old, v, bits) == ZAdd(old, v)

WrapAdd(old, v, bits) ==
    ToSigned(ZAdd(ToUnsigned(old, bits), ToUnsigned(v, bits)), bits)

\* COUNTER_SYNC_PER_CPU: the amount to move to the global counter
\* one unit moved whenever the threshold is crossed
MoveSum_unit(n, step) ==
    IF ZLt(step, n) THEN ZInt(1)
    ELSE IF ZLt(n, ZNeg(step)) THEN ZInt(0 - 1)
    ELSE ZZero

\* the whole step moved instead of half of it
MoveSum_whole_step(n, step) ==
    IF ZLt(step, n) THEN step
    ELSE IF ZLt(n, ZNeg(step)) THEN ZNeg(step)
    ELSE ZZero

\* the comparisons with the step written >= and <=
MoveSum_at_threshold(n, step) ==
    IF ZLe(step, n) THEN ZDiv2(step)
    ELSE IF ZLe(n, ZNeg(step)) THEN ZNeg(ZDiv2(step))
    ELSE ZZero

MoveSum(n, step) ==
    IF ZLt(step, n) THEN ZDiv2(step)
    ELSE IF ZLt(n, ZNeg(step)) THEN ZNeg(ZDiv2(step))
    ELSE ZZero

\* move_sum returned without n -= move_sum
LoopBody_sum_kept(sync, old, v, bits, step) ==
    Only({IF sync = COUNTER_SYNC_PER_CPU
          THEN [n |-> n0, move_sum |-> MoveSum(n0, step)]
          ELSE [n |-> n0, move_sum |-> ZZero] :
             n0 \in {WrapAdd(old, v, bits)}})

\* one iteration of the loop: the value to swap in, and move_sum
LoopBody(sync, old, v, bits, step) ==
    Only({IF sync = COUNTER_SYNC_PER_CPU
          THEN Only({[n |-> ToSigned(ZSub(n0, m), bits), move_sum |-> m] :  \* n -= move_sum
                        m \in {MoveSum(n0, step)}})
          ELSE [n |-> n0, move_sum |-> ZZero] :
             n0 \in {WrapAdd(old, v, bits)}})

\* U8_MAX, U16_MAX, U32_MAX as the classification reads them
UnsignedMax(counter_size) == UMax(CellBits(counter_size))

\* -U8_MAX and -U16_MAX are negated as int; U32_MAX is an unsigned int, and its
\* negation is taken modulo 2^32 before the comparison with the int64_t delta
NegUnsignedMax(counter_size) ==
    IF counter_size = COUNTER_SIZE_32_BIT
    THEN ToUnsigned(ZNeg(UMax(32)), 32)
    ELSE ZNeg(UMax(CellBits(counter_size)))

\* the test of the delta's magnitude alone, without n < old
ClassifyOverflow_magnitude_only(counter_size, v, old, n) ==
    /\ ZLt(ZZero, v)
    /\ counter_size # COUNTER_SIZE_64_BIT
    /\ ZLe(UnsignedMax(counter_size), v)

ClassifyOverflow(counter_size, v, old, n) ==
    /\ ZLt(ZZero, v)
    /\ \/ counter_size # COUNTER_SIZE_64_BIT /\ ZLe(UnsignedMax(counter_size), v)
       \/ ZLt(n, old)

ClassifyUnderflow(counter_size, v, old, n) ==
    /\ ~ClassifyOverflow(counter_size, v, old, n)
    /\ ZLt(v, ZZero)
    /\ \/ counter_size # COUNTER_SIZE_64_BIT /\ ZLe(v, NegUnsignedMax(counter_size))
       \/ ZLt(old, n)

\* the two bitmaps after the test_bit / set_bit pair that ends the function
\* the bits of the cell stored from the flags of this add alone
MarkBits_store_flags(layout, index, overflow, underflow) ==
    [layout EXCEPT
        !.overflow_bitmap = IF overflow THEN @ \cup {index} ELSE @ \ {index},
        !.underflow_bitmap = IF underflow THEN @ \cup {index} ELSE @ \ {index}]

MarkBits(layout, index, overflow, underflow) ==
    IF overflow /\ ~test_bit(index, layout.overflow_bitmap)
    THEN [layout EXCEPT !.overflow_bitmap = set_bit(index, @)]
    ELSE IF underflow /\ ~test_bit(index, layout.underflow_bitmap)
         THEN [layout EXCEPT !.underflow_bitmap = set_bit(index, @)]
         ELSE layout

(***************************************************************************)
(* Execution contexts.  A context calls lttng_counter_add,                 *)
(* lttng_counter_read or lttng_counter_aggregate; every access it makes to *)
(* a cell or a bitmap is a step of its own.  A layout is named as          *)
(* lttng_counter_layout_init names it: -1 the global one, cpu >= 0 the     *)
(* per-cpu one.                                                            *)
(***************************************************************************)
NrCpus == 2        \* num_possible_cpus()

Cpus == 0..(NrCpus - 1)

GLOBAL_LAYOUT == 0 - 1

Layout(id) == IF id = GLOBAL_LAYOUT THEN global_counters ELSE percpu_counters[id]

\* the layouts lttng_counter_create allocates
LayoutIds ==
    IF config.alloc = COUNTER_ALLOC_PER_CPU THEN {GLOBAL_LAYOUT} \cup Cpus ELSE {GLOBAL_LAYOUT}

RET_OK == "0"
EOVERFLOW == "-EOVERFLOW"
EINVAL == "-EINVAL"

NoLoc ==
    [op |-> "none", cpu |-> 0, raw |-> <<>>, validated |-> FALSE,
     dimension_indexes |-> <<>>, delta |-> ZZero,
     call |-> 0, v |-> ZZero, index |-> 0, layout |-> GLOBAL_LAYOUT, sync |-> "",
     res |-> ZZero, old |-> ZZero, n |-> ZZero, move_sum |-> ZZero, warned |-> FALSE,
     ret |-> RET_OK, value |-> ZZero, overflow |-> FALSE, underflow |-> FALSE,
     written |-> {}, of |-> FALSE, uf |-> FALSE, sum |-> ZZero, rcpu |-> GLOBAL_LAYOUT,
     of0 |-> {}, uf0 |-> {}, obs |-> <<>>, retried |-> FALSE,
     beaten |-> FALSE]

\* what the caller passes: the tuple as is, or clamped first
PassedIndexes(raw, validate) ==
    IF validate THEN lttng_counter_validate_indexes(dimensions, raw) ELSE raw

SetLayout(id, layout) ==
    IF id = GLOBAL_LAYOUT
    THEN /\ global_counters' = layout
         /\ UNCHANGED percpu_counters
    ELSE /\ percpu_counters' = [percpu_counters EXCEPT ![id] = layout]
         /\ UNCHANGED global_counters

\* Entry of __lttng_counter_add up to the first load of the cell (res = *int_p).
\* l holds the context's record with its arguments set.
EnterAdd(p, l, alloc, sync, v, call) ==
    LET index == lttng_counter_get_index(dimensions, l.dimension_indexes)
        id == IF alloc = COUNTER_ALLOC_PER_CPU THEN l.cpu ELSE GLOBAL_LAYOUT
        l1 == [l EXCEPT !.call = call, !.v = v, !.index = index, !.sync = sync,
                        !.layout = id, !.move_sum = ZZero, !.beaten = FALSE]
    IN  IF index >= allocated_elem
        THEN \* WARN_ON_ONCE(1); return 0;
             /\ loc' = [loc EXCEPT ![p] = [l1 EXCEPT !.warned = TRUE]]
             /\ pc' = [pc EXCEPT ![p] = "idle"]
             /\ UNCHANGED oob
        ELSE IF index < 0
        THEN \* the signed comparison lets a negative index through: the cell
             \* pointer is outside the array
             /\ loc' = [loc EXCEPT ![p] = l1]
             /\ pc' = [pc EXCEPT ![p] = "wild"]
             /\ oob' = oob \cup {[layout |-> id, index |-> index]}
        ELSE /\ loc' = [loc EXCEPT ![p] = [l1 EXCEPT !.res = Layout(id).counters[index]]]
             /\ pc' = [pc EXCEPT ![p] = "cas"]
             /\ UNCHANGED oob

\* lttng_counter_add -> __lttng_counter_add_percpu / __lttng_counter_add_global
AddBegin(p, cpu, raw, validate, v) ==
    /\ pc[p] = "idle"
    /\ nops' = nops + 1
    /\ EnterAdd(p, [NoLoc EXCEPT !.op = "add", !.cpu = cpu, !.raw = raw,
                                 !.validated = validate,
                                 !.dimension_indexes = PassedIndexes(raw, validate),
                                 !.delta = v],
                config.alloc, config.sync, v, 1)
    /\ UNCHANGED <<counterVars, cellVars, swapped, idxVars, lifeVars, twinVars>>

NeverSwapped == [count |-> 0, sum |-> ZZero, only_inc |-> TRUE, pos |-> 0, neg |-> 0]

SwappedAt(index) == IF index \in DOMAIN swapped THEN swapped[index] ELSE NeverSwapped

\* a caller's add of v has been swapped into the cell at index
Swapped(index, v) ==
    LET was == SwappedAt(index)
    IN  (index :> [was EXCEPT !.count = @ + 1, !.sum = ZAdd(@, v),
                              !.only_inc = @ /\ v = ZInt(1)]) @@ swapped

\* the add of move_sum = v to the global counter has been swapped in
Migrated(index, v) ==
    LET was == SwappedAt(index)
    IN  (index :> (IF ZLt(ZZero, v) THEN [was EXCEPT !.pos = @ + 1]
                   ELSE [was EXCEPT !.neg = @ + 1])) @@ swapped

\* the loop with the result of a failed cmpxchg not kept in res
AddCas_result_dropped(p) ==
    /\ pc[p] = "cas"
    /\ LET l == loc[p]
           old == l.res
           layout == Layout(l.layout)
       IN  \E body \in {LoopBody(l.sync, old, l.v, CellBits(config.counter_size),
                                 global_sum_step)} :
           /\ layout.counters[l.index] = old
           /\ loc' = [loc EXCEPT ![p] = [l EXCEPT !.old = old, !.n = body.n,
                                                 !.move_sum = body.move_sum]]
           /\ SetLayout(l.layout, [layout EXCEPT !.counters[l.index] = body.n])
           /\ pc' = [pc EXCEPT ![p] = "bits"]
           /\ swapped' = IF l.call = 1 THEN Swapped(l.index, l.v)
                         ELSE Migrated(l.index, l.v)
    /\ UNCHANGED <<counterVars, nops, oob, idxVars, lifeVars, twinVars>>

\* the records of the contexts after a cmpxchg of p that leaves l for p: when
\* it succeeded, every other add that has loaded the same cell and not yet
\* swapped has been beaten to it
AfterCas(p, l, won) ==
    [r \in DOMAIN loc |->
        IF r = p THEN l
        ELSE IF /\ won
                /\ pc[r] = "cas"
                /\ loc[r].layout = loc[p].layout
                /\ loc[r].index = loc[p].index
             THEN [loc[r] EXCEPT !.beaten = TRUE]
             ELSE loc[r]]

\* n stored whatever the cell holds, without the comparison
AddCas_blind_store(p) ==
    /\ pc[p] = "cas"
    /\ LET l == loc[p]
           old == l.res
           layout == Layout(l.layout)
           res == layout.counters[l.index]
       IN  \E body \in {LoopBody(l.sync, old, l.v, CellBits(config.counter_size),
                                 global_sum_step)} :
           /\ loc' = AfterCas(p, [l EXCEPT !.old = old, !.n = body.n,
                                           !.move_sum = body.move_sum, !.res = old],
                              TRUE)
           /\ SetLayout(l.layout, [layout EXCEPT !.counters[l.index] = body.n])
           /\ pc' = [pc EXCEPT ![p] = "bits"]
           /\ swapped' = IF l.call = 1 THEN Swapped(l.index, l.v)
                         ELSE Migrated(l.index, l.v)
    /\ UNCHANGED <<counterVars, nops, oob, idxVars, lifeVars, twinVars>>

\* one iteration of the do { } while (old != res) loop, the cmpxchg included
AddCas(p) ==
    /\ pc[p] = "cas"
    /\ LET l == loc[p]
           old == l.res
           layout == Layout(l.layout)
           res == layout.counters[l.index]
       IN  \E body \in {LoopBody(l.sync, old, l.v, CellBits(config.counter_size),
                                 global_sum_step)} :
           /\ loc' = AfterCas(p, [l EXCEPT !.old = old, !.n = body.n,
                                           !.move_sum = body.move_sum, !.res = res,
                                           !.retried = @ \/ res # old,
                                           !.beaten = @ /\ res = old],
                              res = old)
           /\ IF res = old
              THEN /\ SetLayout(l.layout, [layout EXCEPT !.counters[l.index] = body.n])
                   /\ pc' = [pc EXCEPT ![p] = "bits"]
                   /\ swapped' = IF l.call = 1 THEN Swapped(l.index, l.v)
                                 ELSE Migrated(l.index, l.v)
              ELSE /\ UNCHANGED <<cellVars, pc, swapped>>
    /\ UNCHANGED <<counterVars, nops, oob, idxVars, lifeVars, twinVars>>

\* the classification, the bitmap update and the return of move_sum; the callers
\* __lttng_counter_add_percpu (which tests move_sum) and __lttng_counter_add_global
AddBits(p) ==
    /\ pc[p] = "bits"
    /\ LET l == loc[p]
       IN  \E overflow \in {ClassifyOverflow(config.counter_size, l.v, l.old, l.n)},
              underflow \in {ClassifyUnderflow(config.counter_size, l.v, l.old, l.n)} :
           /\ SetLayout(l.layout, MarkBits(Layout(l.layout), l.index, overflow, underflow))
           /\ pc' = [pc EXCEPT ![p] =
                        IF l.call = 1 /\ config.alloc = COUNTER_ALLOC_PER_CPU
                           /\ l.move_sum # ZZero
                        THEN "migrate" ELSE "idle"]
    /\ UNCHANGED <<counterVars, loc, nops, ghostVars, idxVars, lifeVars, twinVars>>

\* the whole step added to the global counter, not the amount returned
AddMigrate_whole_step(p) ==
    /\ pc[p] = "migrate"
    /\ EnterAdd(p, loc[p], COUNTER_ALLOC_GLOBAL, COUNTER_SYNC_GLOBAL, global_sum_step, 2)
    /\ UNCHANGED <<counterVars, cellVars, nops, swapped, idxVars, lifeVars, twinVars>>

\* the second call made like the first, on the layout of config->alloc
AddMigrate_same_layout(p) ==
    /\ pc[p] = "migrate"
    /\ EnterAdd(p, loc[p], config.alloc, COUNTER_SYNC_GLOBAL, loc[p].move_sum, 2)
    /\ UNCHANGED <<counterVars, cellVars, nops, swapped, idxVars, lifeVars, twinVars>>

\* __lttng_counter_add_percpu: the second call, on the global counter
AddMigrate(p) ==
    /\ pc[p] = "migrate"
    /\ EnterAdd(p, loc[p], COUNTER_ALLOC_GLOBAL, COUNTER_SYNC_GLOBAL, loc[p].move_sum, 2)
    /\ UNCHANGED <<counterVars, cellVars, nops, swapped, idxVars, lifeVars, twinVars>>

\* The loop and the bit operations on a cell pointer outside the array.  What
\* that pointer addresses is not fixed by the code: memory that is no part of
\* the counter, or, the arrays lying next to each other, the cell that many
\* places from the end of another layout's array, which then takes the add.
\* The call may return (this step) or never do (the context stays).
AddWild(p) ==
    /\ pc[p] = "wild"
    /\ pc' = [pc EXCEPT ![p] = "idle"]
    /\ \/ UNCHANGED cellVars
       \/ \E id \in LayoutIds \ {loc[p].layout} :
             /\ allocated_elem + loc[p].index \in 0..(allocated_elem - 1)
             /\ SetLayout(id,
                    [Layout(id) EXCEPT !.counters[allocated_elem + loc[p].index] =
                        LoopBody(loc[p].sync, @, loc[p].v,
                                 CellBits(config.counter_size), global_sum_step).n])
    /\ UNCHANGED <<counterVars, loc, nops, ghostVars, idxVars, lifeVars, twinVars>>

(***************************************************************************)
(* lttng_counter_read and lttng_counter_aggregate (counter.c).  The fields *)
(* value, overflow, underflow of a context are the caller's out-parameters *)
(* and `written` names those the call has stored to; v, of, uf, old, sum   *)
(* are the locals of lttng_counter_aggregate.                              *)
(***************************************************************************)
ReadCpus == GLOBAL_LAYOUT..NrCpus

\* the cpu number tested in the PER_CPU case only
ReadError_global_cpu_unchecked(index, cpu) ==
    IF index < 0 \/ index >= allocated_elem THEN EOVERFLOW
    ELSE IF config.alloc = COUNTER_ALLOC_PER_CPU
         THEN (IF cpu >= 0 /\ cpu >= NrCpus THEN EINVAL ELSE RET_OK)
         ELSE RET_OK

\* the cpu tested before the index
ReadError_cpu_first(index, cpu) ==
    IF config.alloc = COUNTER_ALLOC_PER_CPU /\ cpu >= 0 /\ cpu >= NrCpus THEN EINVAL
    ELSE IF config.alloc = COUNTER_ALLOC_GLOBAL /\ cpu >= 0 THEN EINVAL
    ELSE IF index < 0 \/ index >= allocated_elem THEN EOVERFLOW
    ELSE RET_OK

\* the read's checks: the index first, as a size_t, then the cpu
ReadError(index, cpu) ==
    IF index < 0 \/ index >= allocated_elem THEN EOVERFLOW
    ELSE IF config.alloc = COUNTER_ALLOC_PER_CPU
         THEN (IF cpu >= 0 /\ cpu >= NrCpus THEN EINVAL ELSE RET_OK)
         ELSE (IF cpu >= 0 THEN EINVAL ELSE RET_OK)

\* the global counter read whatever the cpu asked for
ReadLayout_global(cpu) == GLOBAL_LAYOUT

\* the layout the checks select
ReadLayout(cpu) ==
    IF config.alloc = COUNTER_ALLOC_PER_CPU /\ cpu >= 0 THEN cpu ELSE GLOBAL_LAYOUT

\* Entry of lttng_counter_read up to the load of the cell (READ_ONCE).
EnterRead(p, l, cpu) ==
    LET index == lttng_counter_get_index(dimensions, l.dimension_indexes)
        err == ReadError(index, cpu)
        id == ReadLayout(cpu)
        l1 == [l EXCEPT !.index = index, !.rcpu = cpu, !.layout = id]
    IN  IF err # RET_OK
        THEN /\ loc' = [loc EXCEPT ![p] = [l1 EXCEPT !.ret = err,
                                                     !.warned = (err = EOVERFLOW)]]
             /\ pc' = [pc EXCEPT ![p] = "idle"]
        ELSE LET cell == Layout(id).counters[index]
             IN  /\ loc' = [loc EXCEPT ![p] =
                        IF l.op = "read"
                        THEN [l1 EXCEPT !.value = cell, !.written = @ \cup {"value"}]
                        ELSE [l1 EXCEPT !.v = cell, !.obs = Append(@, cell)]]
                 /\ pc' = [pc EXCEPT ![p] = "read_of"]

ReadBegin(p, cpu, raw, validate) ==
    /\ pc[p] = "idle"
    /\ nops' = nops + 1
    /\ EnterRead(p, [NoLoc EXCEPT !.op = "read", !.cpu = cpu, !.raw = raw,
                                  !.validated = validate,
                                  !.dimension_indexes = PassedIndexes(raw, validate)],
                 cpu)
    /\ UNCHANGED <<counterVars, cellVars, ghostVars, idxVars, lifeVars, twinVars>>

\* the overflow bit taken and cleared (test_and_clear_bit in place of test_bit)
ReadOverflow_clears(p) ==
    /\ pc[p] = "read_of"
    /\ LET l == loc[p]
           bit == test_bit(l.index, Layout(l.layout).overflow_bitmap)
       IN  /\ loc' = [loc EXCEPT ![p] =
                         IF l.op = "read"
                         THEN [l EXCEPT !.overflow = bit, !.written = @ \cup {"overflow"}]
                         ELSE [l EXCEPT !.of = bit]]
           /\ SetLayout(l.layout,
                  [Layout(l.layout) EXCEPT !.overflow_bitmap = @ \ {l.index}])
    /\ pc' = [pc EXCEPT ![p] = "read_uf"]
    /\ UNCHANGED <<counterVars, nops, ghostVars, idxVars, lifeVars, twinVars>>

\* *overflow = test_bit(index, layout->overflow_bitmap)
ReadOverflow(p) ==
    /\ pc[p] = "read_of"
    /\ LET l == loc[p]
           bit == test_bit(l.index, Layout(l.layout).overflow_bitmap)
       IN  loc' = [loc EXCEPT ![p] =
                      IF l.op = "read"
                      THEN [l EXCEPT !.overflow = bit, !.written = @ \cup {"overflow"}]
                      ELSE [l EXCEPT !.of = bit]]
    /\ pc' = [pc EXCEPT ![p] = "read_uf"]
    /\ UNCHANGED <<counterVars, cellVars, nops, ghostVars, idxVars, lifeVars, twinVars>>

\* the flags taken from the wrap of the sum alone, the bits read left out
AggregateFold_sum_only(l, uf) ==
    LET old == l.sum
        sum == ToSigned(ZAdd(ToUnsigned(old, 64), ToUnsigned(l.v, 64)), 64)
    IN  [l EXCEPT !.uf = uf, !.old = old, !.sum = sum,
                  !.overflow = l.overflow \/ (ZLt(ZZero, l.v) /\ ZLt(sum, old)),
                  !.underflow = l.underflow \/ (ZLt(l.v, ZZero) /\ ZLt(old, sum))]

\* the body of lttng_counter_aggregate after a read of layout l.rcpu returned 0
AggregateFold(l, uf) ==
    IF l.rcpu = GLOBAL_LAYOUT
    THEN [l EXCEPT !.uf = uf,
                   !.sum = ZAdd(l.sum, l.v),
                   !.overflow = l.overflow \/ l.of,
                   !.underflow = l.underflow \/ uf]
    ELSE LET old == l.sum
             sum == ToSigned(ZAdd(ToUnsigned(old, 64), ToUnsigned(l.v, 64)), 64)
             wrapped_up == ZLt(ZZero, l.v) /\ ZLt(sum, old)
             wrapped_down == ~wrapped_up /\ ZLt(l.v, ZZero) /\ ZLt(old, sum)
         IN  [l EXCEPT !.uf = uf, !.old = old, !.sum = sum,
                       !.overflow = l.overflow \/ l.of \/ wrapped_up,
                       !.underflow = l.underflow \/ uf \/ wrapped_down]

\* *underflow = test_bit(index, layout->underflow_bitmap); return 0; and, in
\* lttng_counter_aggregate, what follows the read up to the next one
ReadUnderflow(p) ==
    /\ pc[p] = "read_uf"
    /\ LET l == loc[p]
           bit == test_bit(l.index, Layout(l.layout).underflow_bitmap)
           next == l.rcpu + 1
       IN  IF l.op = "read"
           THEN /\ loc' = [loc EXCEPT ![p] = [l EXCEPT !.underflow = bit, !.ret = RET_OK,
                                                      !.written = @ \cup {"underflow"}]]
                /\ pc' = [pc EXCEPT ![p] = "idle"]
           ELSE IF config.alloc = COUNTER_ALLOC_PER_CPU /\ next < NrCpus
                THEN /\ loc' = [loc EXCEPT ![p] = [AggregateFold(l, bit) EXCEPT !.rcpu = next]]
                     /\ pc' = [pc EXCEPT ![p] = "agg_next"]
                ELSE /\ loc' = [loc EXCEPT ![p] = [AggregateFold(l, bit) EXCEPT !.ret = RET_OK]]
                     /\ pc' = [pc EXCEPT ![p] = "idle"]
    /\ UNCHANGED <<counterVars, cellVars, nops, ghostVars, idxVars, lifeVars, twinVars>>

\* the layouts whose bits of the tuple's cell are set when the aggregate starts
\* (kept beside the locals, for the properties)
BitsSetAt(dimension_indexes) ==
    LET index == lttng_counter_get_index(dimensions, dimension_indexes)
    IN  [overflow |-> {id \in LayoutIds : test_bit(index, Layout(id).overflow_bitmap)},
         underflow |-> {id \in LayoutIds : test_bit(index, Layout(id).underflow_bitmap)}]

\* lttng_counter_aggregate: *overflow = false; *underflow = false; and the read
\* of the global counter
AggregateBegin(p, raw, validate) ==
    /\ pc[p] = "idle"
    /\ nops' = nops + 1
    /\ EnterRead(p, [NoLoc EXCEPT !.op = "aggregate", !.raw = raw,
                                  !.validated = validate,
                                  !.dimension_indexes = PassedIndexes(raw, validate),
                                  !.written = {"overflow", "underflow"},
                                  !.of0 = BitsSetAt(PassedIndexes(raw, validate)).overflow,
                                  !.uf0 = BitsSetAt(PassedIndexes(raw, validate)).underflow],
                 GLOBAL_LAYOUT)
    /\ UNCHANGED <<counterVars, cellVars, ghostVars, idxVars, lifeVars, twinVars>>

\* the read of the next cpu's counter in the loop of lttng_counter_aggregate
AggregateNext(p) ==
    /\ pc[p] = "agg_next"
    /\ EnterRead(p, loc[p], loc[p].rcpu)
    /\ UNCHANGED <<counterVars, cellVars, nops, ghostVars, idxVars, lifeVars, twinVars>>

(***************************************************************************)
(* A counter as lttng_counter_create leaves it.                            *)
(***************************************************************************)
\* lttng_counter_set_global_sum_step accepts 0..S<N>_MAX (any int64_t >= 0
\* for 64-bit cells)
StepAccepted(counter_size, step) ==
    /\ ~ZLt(step, ZZero)
    /\ ZLe(step, SMax(CellBits(counter_size)))

Created(cfg, max_nr_elem, step, nctx) ==
    /\ config = cfg
    /\ global_sum_step = step
    /\ dimensions = CreateDimensions(max_nr_elem)
    /\ allocated_elem = CreateAllocatedElem(CreateDimensions(max_nr_elem))
    /\ global_counters = NewLayout(CreateAllocatedElem(CreateDimensions(max_nr_elem)))
    /\ percpu_counters =
          IF cfg.alloc = COUNTER_ALLOC_PER_CPU
          THEN [c \in Cpus |-> NewLayout(CreateAllocatedElem(CreateDimensions(max_nr_elem)))]
          ELSE NULL
    /\ pc = [p \in 1..nctx |-> "idle"]
    /\ loc = [p \in 1..nctx |-> NoLoc]
    /\ nops = 0
    /\ swapped = <<>>
    /\ oob = {}
    /\ cur = NoResolution
    /\ NoLedger
    /\ twin = NoTwin

Configs ==
    [alloc : {COUNTER_ALLOC_PER_CPU, COUNTER_ALLOC_GLOBAL},
     sync : {COUNTER_SYNC_PER_CPU, COUNTER_SYNC_GLOBAL},
     arithmetic : {COUNTER_ARITHMETIC_OVERFLOW},
     counter_size : CounterSizes]

(***************************************************************************)
(* The index resolver on its own: a counter of any dimension table within  *)
(* the bounds, and a caller that clamps a tuple of signed indexes with     *)
(* lttng_counter_validate_indexes and maps it with lttng_counter_get_index.*)
(***************************************************************************)
RawIndexes == (0 - IdxSlack)..(MaxElem + IdxSlack)

Resolution(dims, raw) ==
    LET clamped == lttng_counter_validate_indexes(dims, raw)
    IN  [raw |-> raw, clamped |-> clamped,
         offset |-> lttng_counter_get_index(dims, clamped)]

InitIdx ==
    /\ \E n \in 1..MaxDims : \E m \in [1..n -> 0..MaxElem] :
          /\ dimensions = CreateDimensions(m)
          /\ allocated_elem = CreateAllocatedElem(CreateDimensions(m))
    /\ config = [alloc |-> COUNTER_ALLOC_GLOBAL, sync |-> COUNTER_SYNC_GLOBAL,
                 arithmetic |-> COUNTER_ARITHMETIC_OVERFLOW,
                 counter_size |-> COUNTER_SIZE_32_BIT]
    /\ global_sum_step = ZZero
    /\ global_counters = NewLayout(allocated_elem)
    /\ percpu_counters = NULL
    /\ pc = <<>>
    /\ loc = <<>>
    /\ nops = 0
    /\ swapped = <<>>
    /\ oob = {}
    /\ cur = NoResolution
    /\ NoLedger
    /\ twin = NoTwin

ResolveIndex ==
    /\ cur = NoResolution
    /\ \E raw \in [1..Len(dimensions) -> RawIndexes] :
          cur' = Resolution(dimensions, raw)
    /\ UNCHANGED <<counterVars, cellVars, ctxVars, ghostVars, lifeVars, twinVars>>

NextIdx == ResolveIndex

SpecIdx == InitIdx /\ [][NextIdx]_vars

(***************************************************************************)
(* One execution context on a counter of dimensions MainMaxNrElem, of any  *)
(* configuration lttng_counter_create accepts.                             *)
(***************************************************************************)
MainMaxNrElem == <<4, 3>>

Steps == {ZInt(0), ZInt(1), ZInt(2), ZInt(4)}

\* index tuples the callers pass, clamped first (validate) or as they are
InRangeTuple == [raw |-> <<2, 1>>, validate |-> TRUE]

AddTuples == {InRangeTuple, [raw |-> <<2, 7>>, validate |-> TRUE]}

ReadTuples ==
    {InRangeTuple,
     [raw |-> <<10, 1>>, validate |-> FALSE],
     [raw |-> <<10, 1>>, validate |-> TRUE],
     [raw |-> <<4, 1>>, validate |-> FALSE]}

\* smp_processor_id() is read only when the layout is a per-cpu one
CallerCpus == IF config.alloc = COUNTER_ALLOC_PER_CPU THEN Cpus ELSE {0}

\* deltas at and around the limits of the cell type
Deltas(counter_size) ==
    LET bits == CellBits(counter_size)
    IN  {d \in {ZInt(1), ZInt(0 - 1), ZInt(2), ZInt(200), SMax(bits), SMin(bits),
                 UMax(bits), ZNeg(UMax(bits))} :
            ZLe(SMin(64), d) /\ ZLe(d, SMax(64))}       \* v is an int64_t

Init ==
    \E cfg \in Configs : \E step \in Steps :
        /\ StepAccepted(cfg.counter_size, step)
        /\ Created(cfg, MainMaxNrElem, step, 1)

Next ==
    \E p \in DOMAIN pc :
        \/ /\ nops < MaxOps
           /\ \E t \in AddTuples, v \in Deltas(config.counter_size) :
                 AddBegin(p, 0, t.raw, t.validate, v)
        \/ AddCas(p)
        \/ AddBits(p)
        \/ AddMigrate(p)
        \/ /\ nops < MaxOps
           /\ \E cpu \in {GLOBAL_LAYOUT, 0}, t \in ReadTuples :
                 ReadBegin(p, cpu, t.raw, t.validate)
        \/ ReadOverflow(p)
        \/ ReadUnderflow(p)
        \/ /\ nops < MaxOps
           /\ \E t \in ReadTuples : AggregateBegin(p, t.raw, t.validate)
        \/ AggregateNext(p)

Spec == Init /\ [][Next]_vars

(***************************************************************************)
(* The same, with lttng_counter_inc and lttng_counter_dec only.            *)
(***************************************************************************)
NextInc ==
    \E p \in DOMAIN pc :
        \/ /\ nops < MaxIncs
           /\ \E cpu \in CallerCpus, v \in {ZInt(1), ZInt(0 - 1)} :
                 AddBegin(p, cpu, InRangeTuple.raw, InRangeTuple.validate, v)
        \/ AddCas(p)
        \/ AddBits(p)
        \/ AddMigrate(p)
        \/ /\ nops < MaxIncs
           /\ \E cpu \in {GLOBAL_LAYOUT, 0} :
                 ReadBegin(p, cpu, InRangeTuple.raw, InRangeTuple.validate)
        \/ ReadOverflow(p)
        \/ ReadUnderflow(p)
        \/ /\ nops < MaxIncs
           /\ AggregateBegin(p, InRangeTuple.raw, InRangeTuple.validate)
        \/ AggregateNext(p)

SpecInc == Init /\ [][NextInc]_vars

(***************************************************************************)
(* Concurrent execution contexts, on any cpus, interleaved at every access *)
(* to a cell or a bitmap.                                                  *)
(***************************************************************************)
ConcDeltas == {ZInt(1), ZInt(0 - 1), ZInt(200)}

ConcSteps == {ZInt(0), ZInt(2)}

InitConc ==
    \E cfg \in Configs : \E step \in ConcSteps :
        /\ StepAccepted(cfg.counter_size, step)
        /\ Created(cfg, MainMaxNrElem, step, NrContexts)

NextConc ==
    \E p \in DOMAIN pc :
        \/ /\ nops < MaxConcOps
           /\ \E cpu \in CallerCpus, v \in ConcDeltas :
                 AddBegin(p, cpu, InRangeTuple.raw, InRangeTuple.validate, v)
        \/ AddCas(p)
        \/ AddBits(p)
        \/ AddMigrate(p)
        \/ /\ nops < MaxConcOps
           /\ \E cpu \in {GLOBAL_LAYOUT, 0} :
                 ReadBegin(p, cpu, InRangeTuple.raw, InRangeTuple.validate)
        \/ ReadOverflow(p)
        \/ ReadUnderflow(p)
        \/ /\ nops < MaxConcOps
           /\ AggregateBegin(p, InRangeTuple.raw, InRangeTuple.validate)
        \/ AggregateNext(p)

SpecConc == InitConc /\ [][NextConc]_vars

\* The adds alone, under fair scheduling: a context that has entered
\* __lttng_counter_add goes on executing it.
NextLive ==
    \E p \in DOMAIN pc :
        \/ /\ nops < MaxConcOps
           /\ \E cpu \in CallerCpus, v \in ConcDeltas :
                 AddBegin(p, cpu, InRangeTuple.raw, InRangeTuple.validate, v)
        \/ AddCas(p)
        \/ AddBits(p)
        \/ AddMigrate(p)

AddStep(p) == AddCas(p) \/ AddBits(p) \/ AddMigrate(p)

SpecLive ==
    /\ InitConc
    /\ [][NextLive]_vars
    /\ \A p \in 1..NrContexts : WF_vars(AddStep(p))

(***************************************************************************)
(* One context passing tuples that are not clamped, with components below  *)
(* 0 or above the dimension, and any cpu number to the reads.              *)
(***************************************************************************)
UnclampedTuples ==
    {InRangeTuple,
     [raw |-> <<10, 1>>, validate |-> FALSE],
     [raw |-> <<0 - 1, 0>>, validate |-> FALSE],
     [raw |-> <<0 - 1, 0>>, validate |-> TRUE]}

NextErr ==
    \E p \in DOMAIN pc :
        \/ /\ nops < MaxOps
           /\ \E cpu \in CallerCpus, t \in UnclampedTuples, v \in {ZInt(1), ZInt(200)} :
                 AddBegin(p, cpu, t.raw, t.validate, v)
        \/ AddCas(p)
        \/ AddBits(p)
        \/ AddMigrate(p)
        \/ AddWild(p)
        \/ /\ nops < MaxOps
           /\ \E cpu \in ReadCpus, t \in UnclampedTuples :
                 ReadBegin(p, cpu, t.raw, t.validate)
        \/ ReadOverflow(p)
        \/ ReadUnderflow(p)
        \/ /\ nops < MaxOps
           /\ \E t \in UnclampedTuples : AggregateBegin(p, t.raw, t.validate)
        \/ AggregateNext(p)

SpecErr == Init /\ [][NextErr]_vars

(***************************************************************************)
(* One context on a counter allocated PER_CPU with a step near the limit   *)
(* of the narrowest cell, adding deltas of a magnitude between the signed  *)
(* and the unsigned limit of that cell.                                    *)
(***************************************************************************)
WideSteps == {ZInt(100)}

MaxWideOps == 3     \* calls of the API in one run

WideDeltas == {ZInt(0 - 70), ZInt(206), ZInt(101), ZInt(50)}

InitWide ==
    \E cfg \in Configs : \E step \in WideSteps :
        /\ cfg.alloc = COUNTER_ALLOC_PER_CPU
        /\ StepAccepted(cfg.counter_size, step)
        /\ Created(cfg, MainMaxNrElem, step, 1)

NextWide ==
    \E p \in DOMAIN pc :
        \/ /\ nops < MaxWideOps
           /\ \E cpu \in CallerCpus, v \in WideDeltas :
                 AddBegin(p, cpu, InRangeTuple.raw, InRangeTuple.validate, v)
        \/ AddCas(p)
        \/ AddBits(p)
        \/ AddMigrate(p)

SpecWide == InitWide /\ [][NextWide]_vars

(***************************************************************************)
(* An aggregate running together with increments: the last context calls   *)
(* lttng_counter_aggregate once, the others lttng_counter_inc on any cpu,  *)
(* on a counter allocated PER_CPU whose step the increments can cross.     *)
(***************************************************************************)
MaxAggIncs == 3    \* increments in one run

AggSteps == {ZInt(2)}

Aggregator == NrContexts

IncsBegun == nops - (IF loc[Aggregator].op = "aggregate" THEN 1 ELSE 0)

InitAgg ==
    \E cfg \in Configs : \E step \in AggSteps :
        /\ cfg.alloc = COUNTER_ALLOC_PER_CPU
        /\ StepAccepted(cfg.counter_size, step)
        /\ Created(cfg, MainMaxNrElem, step, NrContexts)

NextAgg ==
    \E p \in DOMAIN pc :
        \/ /\ p # Aggregator
           /\ IncsBegun < MaxAggIncs
           /\ \E cpu \in Cpus :
                 AddBegin(p, cpu, InRangeTuple.raw, InRangeTuple.validate, ZInt(1))
        \/ AddCas(p)
        \/ AddBits(p)
        \/ AddMigrate(p)
        \/ /\ p = Aggregator
           /\ loc[p].op = "none"
           /\ AggregateBegin(p, InRangeTuple.raw, InRangeTuple.validate)
        \/ ReadOverflow(p)
        \/ ReadUnderflow(p)
        \/ AggregateNext(p)

SpecAgg == InitAgg /\ [][NextAgg]_vars

(***************************************************************************)
(* lttng_counter_create and lttng_counter_destroy with their allocations   *)
(* (counter.c).  An allocation is named by what it is allocated for: the   *)
(* counter, the dimension table, the percpu area, or one of the three      *)
(* arrays of a layout.  With alloc = COUNTER_ALLOC_GLOBAL percpu_counters  *)
(* is NULL and per_cpu_ptr(counter->percpu_counters, cpu) is not memory of *)
(* the counter: ptrs[cpu] is then whatever that memory holds, a store to   *)
(* it may not be what a later load finds, and its owner may write to it.   *)
(***************************************************************************)
ENOMEM == "-ENOMEM"

Obj(owner, field) == [owner |-> owner, field |-> field]

COUNTER_OBJ == Obj(0 - 2, "counter")
DIMENSIONS_OBJ == Obj(0 - 2, "dimensions")
PERCPU_OBJ == Obj(0 - 2, "percpu_counters")

\* a null pointer, and a pointer to something no call of the counter allocated
NULLP == Obj(0 - 3, "NULL")
JUNK == Obj(0 - 3, "junk")

LayoutFields == {"counters", "overflow_bitmap", "underflow_bitmap"}

LayoutObjs(id) == {Obj(id, f) : f \in LayoutFields}

\* a zeroed struct lib_counter_layout, and one of foreign content
ZeroedPtrs == [f \in LayoutFields |-> NULLP]
JunkPtrs == [f \in LayoutFields |-> JUNK]

\* the records below carry heap, frees, foreign, ptrs, touched through a call
Ledger == [heap |-> heap, frees |-> frees, foreign |-> foreign, ptrs |-> ptrs,
           touched |-> touched]

FreeCount(fr, p) == IF p \in DOMAIN fr THEN fr[p] ELSE 0

kzalloc(L, obj) == [L EXCEPT !.heap = @ \cup {obj}]

\* kfree / lttng_kvfree / free_percpu of the pointer p
kfree(L, p) ==
    IF p = NULLP THEN L
    ELSE IF p = JUNK THEN [L EXCEPT !.foreign = @ + 1]
    ELSE [L EXCEPT !.heap = @ \ {p},
                   !.frees = (p :> (FreeCount(L.frees, p) + 1)) @@ @]

\* the layout of cpu is reached through a NULL percpu_counters
ThroughNull(alloc, cpu) == alloc = COUNTER_ALLOC_GLOBAL /\ cpu # GLOBAL_LAYOUT

\* layout-><field> = p
StoreField(L, alloc, cpu, f, p, kept) ==
    IF ThroughNull(alloc, cpu)
    THEN [L EXCEPT !.touched = @ \cup {cpu},
                   !.ptrs[cpu][f] = IF kept THEN p ELSE @]
    ELSE [L EXCEPT !.ptrs[cpu][f] = p]

\* layout-><field> = lttng_kvzalloc_node(...); if (!layout-><field>) return -ENOMEM;
AllocField(S, alloc, cpu, f, fail, kept) ==
    IF S.ret # RET_OK THEN S
    ELSE IF fail = Obj(cpu, f)
         THEN [L |-> StoreField(S.L, alloc, cpu, f, NULLP, kept), ret |-> ENOMEM]
         ELSE [L |-> StoreField(kzalloc(S.L, Obj(cpu, f)), alloc, cpu, f, Obj(cpu, f), kept),
               ret |-> RET_OK]

lttng_counter_layout_init(L, cfg, cpu, fail, kept) ==
    IF cfg.counter_size \notin CounterSizes
    THEN [L |-> L, ret |-> EINVAL]
    ELSE AllocField(
             AllocField(
                 AllocField([L |-> L, ret |-> RET_OK],
                            cfg.alloc, cpu, "counters", fail, kept),
                 cfg.alloc, cpu, "overflow_bitmap", fail, kept),
             cfg.alloc, cpu, "underflow_bitmap", fail, kept)

lttng_counter_layout_fini(L, alloc, cpu) ==
    LET L1 == IF ThroughNull(alloc, cpu) THEN [L EXCEPT !.touched = @ \cup {cpu}] ELSE L
    IN  kfree(kfree(kfree(L1, L1.ptrs[cpu].counters),
                    L1.ptrs[cpu].overflow_bitmap),
              L1.ptrs[cpu].underflow_bitmap)

\* for (cpu = 0; cpu < num_possible_cpus(); cpu++) { ret = lttng_counter_layout_init(counter, cpu); ... }
RECURSIVE LayoutInitFrom(_, _, _, _, _)
LayoutInitFrom(S, cfg, cpu, fail, kept) ==
    IF S.ret # RET_OK \/ cpu >= NrCpus THEN S
    ELSE LayoutInitFrom(lttng_counter_layout_init(S.L, cfg, cpu, fail, kept),
                        cfg, cpu + 1, fail, kept)

\* for (cpu = 0; cpu < num_possible_cpus(); cpu++) lttng_counter_layout_fini(counter, cpu);
RECURSIVE LayoutFiniFrom(_, _, _)
LayoutFiniFrom(L, alloc, cpu) ==
    IF cpu >= NrCpus THEN L
    ELSE LayoutFiniFrom(lttng_counter_layout_fini(L, alloc, cpu), alloc, cpu + 1)

\* counter->percpu_counters as lttng_counter_create leaves it
PercpuPointer(alloc) == IF alloc = COUNTER_ALLOC_PER_CPU THEN PERCPU_OBJ ELSE NULLP

\* the five frees that end lttng_counter_destroy and the layout_init_error path
ReleaseAll(L, alloc) ==
    kfree(kfree(kfree(lttng_counter_layout_fini(LayoutFiniFrom(L, alloc, 0),
                                                alloc, GLOBAL_LAYOUT),
                      PercpuPointer(alloc)),
                DIMENSIONS_OBJ),
          COUNTER_OBJ)

\* the step wider than the cell accepted
global_sum_step_sign_only(counter_size, step) ==
    IF ZLt(step, ZZero) \/ counter_size \notin CounterSizes THEN EINVAL ELSE RET_OK

lttng_counter_set_global_sum_step(counter_size, step) ==
    IF ZLt(step, ZZero) THEN EINVAL
    ELSE IF counter_size \notin CounterSizes THEN EINVAL
    ELSE IF counter_size # COUNTER_SIZE_64_BIT /\ ZLt(SMax(CellBits(counter_size)), step)
         THEN EINVAL
         ELSE RET_OK

\* lttng_counter_create: the ledger it leaves and whether it returns a counter.
\* fail names the allocation that fails, if any does.
lttng_counter_create(L, cfg, step, bits_per_long, fail, kept) ==
    IF bits_per_long # 64 /\ cfg.counter_size = COUNTER_SIZE_64_BIT
    THEN [L |-> L, counter |-> FALSE]
    ELSE IF fail = COUNTER_OBJ
    THEN [L |-> L, counter |-> FALSE]
    ELSE LET L1 == [kzalloc(L, COUNTER_OBJ) EXCEPT !.ptrs[GLOBAL_LAYOUT] = ZeroedPtrs]
         IN  IF lttng_counter_set_global_sum_step(cfg.counter_size, step) # RET_OK
             THEN [L |-> kfree(L1, COUNTER_OBJ), counter |-> FALSE]
             ELSE IF fail = DIMENSIONS_OBJ
             THEN [L |-> kfree(L1, COUNTER_OBJ), counter |-> FALSE]
             ELSE IF cfg.alloc = COUNTER_ALLOC_PER_CPU /\ fail = PERCPU_OBJ
             THEN [L |-> kfree(kfree(kzalloc(L1, DIMENSIONS_OBJ), DIMENSIONS_OBJ),
                               COUNTER_OBJ),
                   counter |-> FALSE]
             ELSE LET L2 == kzalloc(L1, DIMENSIONS_OBJ)
                      L3 == IF cfg.alloc = COUNTER_ALLOC_PER_CPU
                            THEN [kzalloc(L2, PERCPU_OBJ) EXCEPT
                                     !.ptrs = [id \in DOMAIN @ |->
                                                 IF id \in Cpus THEN ZeroedPtrs ELSE @[id]]]
                            ELSE L2
                      S == LayoutInitFrom(
                               lttng_counter_layout_init(L3, cfg, GLOBAL_LAYOUT, fail, kept),
                               cfg, 0, fail, kept)
                  IN  IF S.ret = RET_OK
                      THEN [L |-> S.L, counter |-> TRUE]
                      ELSE [L |-> ReleaseAll(S.L, cfg.alloc), counter |-> FALSE]

\* the configurations handed to lttng_counter_create: the four widths and a
\* counter_size that is none of them
BadCounterSizes == {3}

LifeConfigs ==
    [alloc : {COUNTER_ALLOC_PER_CPU, COUNTER_ALLOC_GLOBAL},
     sync : {COUNTER_SYNC_PER_CPU},
     arithmetic : {COUNTER_ARITHMETIC_OVERFLOW},
     counter_size : CounterSizes \cup BadCounterSizes]

\* steps at the edges of what a width takes
LifeSteps(counter_size) ==
    {ZInt(0 - 1), ZZero, ZInt(1)} \cup
    (IF counter_size \in CounterSizes
     THEN {SMax(CellBits(counter_size))} \cup
          (IF counter_size # COUNTER_SIZE_64_BIT
           THEN {ZAdd(SMax(CellBits(counter_size)), ZInt(1))} ELSE {})
     ELSE {})

NoFail == Obj(0 - 3, "none")

FailPoints ==
    {NoFail, COUNTER_OBJ, DIMENSIONS_OBJ, PERCPU_OBJ}
        \cup UNION {LayoutObjs(id) : id \in {GLOBAL_LAYOUT} \cup Cpus}

WordSizes == {32, 64}

PutLedger(L) ==
    /\ heap' = L.heap
    /\ frees' = L.frees
    /\ foreign' = L.foreign
    /\ ptrs' = L.ptrs
    /\ touched' = L.touched

Create ==
    /\ handle = "none"
    /\ \E cfg \in LifeConfigs, bits_per_long \in WordSizes, fail \in FailPoints,
          kept \in BOOLEAN :
          \E step \in LifeSteps(cfg.counter_size) :
             \E r \in {lttng_counter_create(Ledger, cfg, step, bits_per_long, fail, kept)} :
                /\ PutLedger(r.L)
                /\ handle' = IF r.counter THEN "counter" ELSE "NULL"
                /\ args' = [config |-> cfg, global_sum_step |-> step,
                            bits_per_long |-> bits_per_long, fail |-> fail]
                /\ IF r.counter
                   THEN /\ config' = cfg
                        /\ global_sum_step' = step
                        /\ dimensions' = CreateDimensions(MainMaxNrElem)
                        /\ allocated_elem' =
                              CreateAllocatedElem(CreateDimensions(MainMaxNrElem))
                        /\ global_counters' =
                              NewLayout(CreateAllocatedElem(CreateDimensions(MainMaxNrElem)))
                        /\ percpu_counters' =
                              IF cfg.alloc = COUNTER_ALLOC_PER_CPU
                              THEN [c \in Cpus |->
                                      NewLayout(CreateAllocatedElem(
                                                    CreateDimensions(MainMaxNrElem)))]
                              ELSE NULL
                   ELSE UNCHANGED <<counterVars, cellVars>>
    /\ UNCHANGED <<ctxVars, ghostVars, idxVars, twinVars>>

\* lttng_counter_destroy
Destroy ==
    /\ handle = "counter"
    /\ PutLedger(ReleaseAll(Ledger, config.alloc))
    /\ handle' = "destroyed"
    /\ UNCHANGED <<args, counterVars, cellVars, ctxVars, ghostVars, idxVars, twinVars>>

\* the owner of the memory that per_cpu_ptr(NULL, cpu) addresses writes to it
ForeignStore(cpu) ==
    /\ handle = "counter"
    /\ config.alloc = COUNTER_ALLOC_GLOBAL
    /\ ptrs[cpu] # JunkPtrs
    /\ ptrs' = [ptrs EXCEPT ![cpu] = JunkPtrs]
    /\ UNCHANGED <<handle, args, heap, frees, foreign, touched,
                   counterVars, cellVars, ctxVars, ghostVars, idxVars, twinVars>>

InitCreate ==
    /\ handle = "none"
    /\ args = NULL
    /\ heap = {}
    /\ frees = <<>>
    /\ foreign = 0
    /\ \E found \in {ZeroedPtrs, JunkPtrs} :
          ptrs = [id \in {GLOBAL_LAYOUT} \cup Cpus |->
                     IF id = GLOBAL_LAYOUT THEN ZeroedPtrs ELSE found]
    /\ touched = {}
    /\ config = NULL
    /\ global_sum_step = ZZero
    /\ dimensions = <<>>
    /\ allocated_elem = 0
    /\ global_counters = NULL
    /\ percpu_counters = NULL
    /\ pc = <<>>
    /\ loc = <<>>
    /\ nops = 0
    /\ swapped = <<>>
    /\ oob = {}
    /\ cur = NoResolution
    /\ twin = NoTwin

NextCreate ==
    \/ Create
    \/ Destroy
    \/ \E cpu \in Cpus : ForeignStore(cpu)

SpecCreate == InitCreate /\ [][NextCreate]_vars

(***************************************************************************)
(* Properties of the index resolver, under SpecIdx.                        *)
(***************************************************************************)
Resolved == cur # NoResolution

\* C1: every flat offset the resolver produces (clamping, then the stride sum)
\* lies in 0..allocated_elem-1.
C1_OffsetWithinAllocated ==
    Resolved => (0 <= cur.offset /\ cur.offset < allocated_elem)

\* C2: in a dimension of max_nr_elem = N an index < 0 is replaced by N, an
\* index >= N by N + 1, and an index in 0..N-1 is left as it is.
C2_SentinelSubstitution ==
    Resolved =>
        \A i \in 1..Len(dimensions) :
            LET N == dimensions[i].max_nr_elem
                x == cur.raw[i]
            IN  cur.clamped[i] = (IF x < 0 THEN N ELSE IF x >= N THEN N + 1 ELSE x)

\* C3: in a single dimension of max_nr_elem = N, every index < 0 resolves to
\* the flat offset of index -1, and every index >= N to the flat offset of
\* index N.
C3_ClampedOffsetsCoincide ==
    (Resolved /\ Len(dimensions) = 1) =>
        LET N == dimensions[1].max_nr_elem
            x == cur.raw[1]
        IN  /\ x < 0 => cur.offset = Resolution(dimensions, <<0 - 1>>).offset
            /\ x >= N => cur.offset = Resolution(dimensions, <<N>>).offset

\* an index further out than -1 and one further out than N have been resolved
C3_Witness ==
    /\ Resolved
    /\ Len(dimensions) = 1
    /\ cur.raw[1] > dimensions[1].max_nr_elem + 1
    /\ dimensions[1].max_nr_elem > 0

(***************************************************************************)
(* Properties of add and read.  Spec and SpecInc have one context, so the  *)
(* record of a context at rest describes the last call made.               *)
(***************************************************************************)
Contexts == DOMAIN pc

LayoutOf(global, percpu, id) == IF id = GLOBAL_LAYOUT THEN global ELSE percpu[id]

\* context p made a call of __lttng_counter_add whose cmpxchg succeeded and
\* which has returned; loc[p] holds that call's v, old, n, index and layout
AddReturned(p) ==
    /\ pc[p] \in {"idle", "migrate"}
    /\ loc[p].op = "add"
    /\ loc[p].call >= 1
    /\ ~loc[p].warned

ReadReturned(p) == pc[p] = "idle" /\ loc[p].op = "read"

IncCount(index) == IF index \in DOMAIN swapped THEN swapped[index].count ELSE 0

OnlyIncrements(index) == index \in DOMAIN swapped => swapped[index].only_inc

InCellRange(n) ==
    /\ ZLe(SMin(CellBits(config.counter_size)), n)
    /\ ZLe(n, SMax(CellBits(config.counter_size)))

CongruentModCell(a, b) == ToUnsigned(ZSub(a, b), CellBits(config.counter_size)) = ZZero

\* C4: on a counter allocated GLOBAL, after k increments of an in-range tuple
\* and no other add of it, a read of the tuple with cpu -1 returns 0 and
\* gives value k, overflow false and underflow false.
C4_ReadReturnsIncrementCount ==
    \A p \in Contexts :
        (/\ ReadReturned(p)
         /\ config.alloc = COUNTER_ALLOC_GLOBAL
         /\ loc[p].rcpu = GLOBAL_LAYOUT
         /\ loc[p].raw = InRangeTuple.raw
         /\ OnlyIncrements(loc[p].index))
        => /\ loc[p].ret = RET_OK
           /\ loc[p].value = ZInt(IncCount(loc[p].index))
           /\ ~loc[p].overflow
           /\ ~loc[p].underflow

\* the tuple with every component >= max_nr_elem replaced by max_nr_elem, the
\* index whose cell is the overflow one ((10,1) becomes (4,1))
OverflowTuple(raw) ==
    [i \in 1..Len(raw) |->
        IF raw[i] >= dimensions[i].max_nr_elem THEN dimensions[i].max_nr_elem ELSE raw[i]]

HasOutOfRange(raw) == \E i \in 1..Len(raw) : raw[i] >= dimensions[i].max_nr_elem

\* C5: a read of a tuple with an out-of-range component, on a layout that
\* exists, returns 0 and reads the cell that the read of the tuple with that
\* component replaced by the overflow index reads.
C5_OutOfRangeReadsOverflowCell ==
    \A p \in Contexts :
        (/\ ReadReturned(p)
         /\ HasOutOfRange(loc[p].raw)
         /\ loc[p].ret # EINVAL)
        => /\ loc[p].ret = RET_OK
           /\ loc[p].index = lttng_counter_get_index(dimensions,
                                 PassedIndexes(OverflowTuple(loc[p].raw), loc[p].validated))

\* C6: with sync GLOBAL the successful cmpxchg of an add of v to a cell holding
\* old stores the value of the cell type congruent to old + v modulo 2^w; an
\* 8-bit cell at 0 holds -56 after add(200) with its overflow bit set, and
\* after one more add of 1 holds -55 with the bit still set.
C6_GlobalSyncStoresWrappedSum ==
    \A p \in Contexts :
        LET l == loc[p]
            layout == Layout(l.layout)
        IN  /\ (pc[p] = "bits" /\ l.sync = COUNTER_SYNC_GLOBAL)
               => /\ layout.counters[l.index] = l.n
                  /\ InCellRange(l.n)
                  /\ CongruentModCell(l.n, ZAdd(l.old, l.v))
            /\ (/\ AddReturned(p)
                /\ l.sync = COUNTER_SYNC_GLOBAL
                /\ config.counter_size = COUNTER_SIZE_8_BIT
                /\ l.old = ZZero
                /\ l.v = ZInt(200))
               => /\ l.n = ZInt(0 - 56)
                  /\ test_bit(l.index, layout.overflow_bitmap)
            /\ (/\ AddReturned(p)
                /\ l.sync = COUNTER_SYNC_GLOBAL
                /\ config.counter_size = COUNTER_SIZE_8_BIT
                /\ l.old = ZInt(0 - 56)
                /\ l.v = ZInt(1)
                /\ swapped[l.index].count = 2)
               => /\ layout.counters[l.index] = ZInt(0 - 55)
                  /\ test_bit(l.index, layout.overflow_bitmap)

\* the 8-bit cell after add(200) and then add(1)
C6_Witness ==
    \E p \in Contexts :
        /\ AddReturned(p)
        /\ loc[p].sync = COUNTER_SYNC_GLOBAL
        /\ config.counter_size = COUNTER_SIZE_8_BIT
        /\ loc[p].old = ZInt(0 - 56)
        /\ loc[p].v = ZInt(1)
        /\ swapped[loc[p].index].count = 2
        /\ test_bit(loc[p].index, Layout(loc[p].layout).overflow_bitmap)

\* C7: no step of add, read or aggregate, of any context, clears a bit of the
\* overflow or underflow bitmap of any layout.
C7_StickyBitsMonotonic ==
    [][\A id \in LayoutIds :
          /\ Layout(id).overflow_bitmap \subseteq
                LayoutOf(global_counters', percpu_counters', id).overflow_bitmap
          /\ Layout(id).underflow_bitmap \subseteq
                LayoutOf(global_counters', percpu_counters', id).underflow_bitmap]_vars

\* a context has swapped a cell whose overflow bit is already set, with an add
\* that does not overflow, and is about to update the bitmaps
C7_Witness ==
    \E p \in Contexts :
        /\ pc[p] = "bits"
        /\ test_bit(loc[p].index, Layout(loc[p].layout).overflow_bitmap)
        /\ ~ClassifyOverflow(config.counter_size, loc[p].v, loc[p].old, loc[p].n)
        /\ ~ClassifyUnderflow(config.counter_size, loc[p].v, loc[p].old, loc[p].n)

\* C8: an add sets the overflow (underflow) bit of its cell only if its exact
\* result old + v is above the maximum (below the minimum) of the cell type.
C8_BitSetOnlyWhenWrapped ==
    [][\A p \in Contexts :
          pc[p] = "bits" =>
              LET l == loc[p]
                  exact == ZAdd(l.old, l.v)
                  before == Layout(l.layout)
                  after == LayoutOf(global_counters', percpu_counters', l.layout)
              IN  /\ (~test_bit(l.index, before.overflow_bitmap)
                      /\ test_bit(l.index, after.overflow_bitmap))
                     => ZLt(SMax(CellBits(config.counter_size)), exact)
                  /\ (~test_bit(l.index, before.underflow_bitmap)
                      /\ test_bit(l.index, after.underflow_bitmap))
                     => ZLt(exact, SMin(CellBits(config.counter_size)))]_vars

\* C9 as stated: after an add of v > 0 whose final stored value n is not
\* greater than old the overflow bit of the cell is set, and after an add of
\* v < 0 whose n is not less than old the underflow bit is set.
C9_NotGreaterMarksOverflow ==
    \A p \in Contexts :
        AddReturned(p) =>
            LET l == loc[p]
                layout == Layout(l.layout)
            IN  /\ (ZLt(ZZero, l.v) /\ ZLe(l.n, l.old))
                   => test_bit(l.index, layout.overflow_bitmap)
                /\ (ZLt(l.v, ZZero) /\ ZLe(l.old, l.n))
                   => test_bit(l.index, layout.underflow_bitmap)

\* C9, corrected: after an add of v > 0 whose final stored value n is less
\* than old the overflow bit of the cell is set, and after an add of v < 0
\* whose n is greater than old the underflow bit is set.
C9_LessMarksOverflow ==
    \A p \in Contexts :
        AddReturned(p) =>
            LET l == loc[p]
                layout == Layout(l.layout)
            IN  /\ (ZLt(ZZero, l.v) /\ ZLt(l.n, l.old))
                   => test_bit(l.index, layout.overflow_bitmap)
                /\ (ZLt(l.v, ZZero) /\ ZLt(l.old, l.n))
                   => test_bit(l.index, layout.underflow_bitmap)

\* an add of v > 0 has returned with a stored value below old
C9_Witness ==
    \E p \in Contexts :
        /\ AddReturned(p)
        /\ ZLt(ZZero, loc[p].v)
        /\ ZLt(loc[p].n, loc[p].old)
        /\ ZLt(loc[p].v, UMax(8))
        /\ test_bit(loc[p].index, Layout(loc[p].layout).overflow_bitmap)

\* C10: in a counter allocated PER_CPU with global_sum_step = S >= 1 whose
\* cells received only adds of +1, no per-cpu cell is above S or below -S.
C10_ShardCellWithinStep ==
    (/\ config.alloc = COUNTER_ALLOC_PER_CPU
     /\ ZLe(ZInt(1), global_sum_step)
     /\ \A index \in DOMAIN swapped : swapped[index].only_inc)
    => \A cpu \in Cpus : \A index \in 0..(allocated_elem - 1) :
           /\ ZLe(ZNeg(global_sum_step), percpu_counters[cpu].counters[index])
           /\ ZLe(percpu_counters[cpu].counters[index], global_sum_step)

(***************************************************************************)
(* Migration to the global counter.                                        *)
(***************************************************************************)
RECURSIVE ZTimes(_, _)
ZTimes(k, x) ==
    IF k = 0 THEN ZZero
    ELSE IF k > 0 THEN ZAdd(x, ZTimes(k - 1, x))
    ELSE ZNeg(ZTimes(0 - k, x))

Offsets == 0..(allocated_elem - 1)

\* C11: in a counter allocated PER_CPU the global cell at an offset holds
\* (P - N) * (global_sum_step / 2), wrapped to the cell type, P and N being the
\* numbers of completed positive and negative migrations at the offset.
C11_GlobalCellIsMigratedHalfSteps ==
    config.alloc = COUNTER_ALLOC_PER_CPU =>
        \A index \in Offsets :
            global_counters.counters[index] =
                ToSigned(ZTimes(SwappedAt(index).pos - SwappedAt(index).neg,
                                ZDiv2(global_sum_step)),
                         CellBits(config.counter_size))

\* two migrations have completed at an offset and left the global cell off 0
C11_Witness ==
    /\ config.alloc = COUNTER_ALLOC_PER_CPU
    /\ \E index \in Offsets :
          /\ SwappedAt(index).pos + SwappedAt(index).neg >= 2
          /\ global_counters.counters[index] # ZZero

\* C12: with global_sum_step = 0 in a counter allocated PER_CPU no add changes
\* a cell or a bit of the global counter: move_sum is 0, no second call is
\* made, and the per-cpu cell is stored the whole wrapped sum old + v.
C12_ZeroStepNeverMigrates ==
    (config.alloc = COUNTER_ALLOC_PER_CPU /\ global_sum_step = ZZero) =>
        /\ global_counters = NewLayout(allocated_elem)
        /\ \A p \in Contexts :
              /\ pc[p] # "migrate"
              /\ loc[p].call # 2
              /\ loc[p].move_sum = ZZero
              /\ (loc[p].op = "add" /\ pc[p] \in {"bits", "idle"} /\ ~loc[p].warned)
                 => /\ loc[p].layout \in Cpus
                    /\ InCellRange(loc[p].n)
                    /\ CongruentModCell(loc[p].n, ZAdd(loc[p].old, loc[p].v))

\* with step 0 and sync PER_CPU an add of 200 has been stored in a per-cpu cell
C12_Witness ==
    /\ config.alloc = COUNTER_ALLOC_PER_CPU
    /\ config.sync = COUNTER_SYNC_PER_CPU
    /\ global_sum_step = ZZero
    /\ \E p \in Contexts :
          /\ AddReturned(p)
          /\ loc[p].v = ZInt(200)
          /\ loc[p].old # ZZero

\* C13: in a counter allocated GLOBAL, whatever the sync mode and the step, an
\* add of v to the cell holding old stores the wrapped sum old + v: no move_sum
\* is computed or subtracted.
C13_GlobalAllocStoresWholeSum ==
    config.alloc = COUNTER_ALLOC_GLOBAL =>
        \A p \in Contexts :
            (pc[p] = "bits" /\ loc[p].op = "add") =>
                /\ loc[p].layout = GLOBAL_LAYOUT
                /\ loc[p].move_sum = ZZero
                /\ global_counters.counters[loc[p].index] = loc[p].n
                /\ InCellRange(loc[p].n)
                /\ CongruentModCell(loc[p].n, ZAdd(loc[p].old, loc[p].v))

(***************************************************************************)
(* lttng_counter_aggregate.                                                *)
(***************************************************************************)
AggregateReturned(p) == pc[p] = "idle" /\ loc[p].op = "aggregate"

\* every cpu's cell at index holds M after M increments each and nothing else
EachCpuIncremented(index, M) ==
    /\ SwappedAt(index).only_inc
    /\ SwappedAt(index).count = NrCpus * M
    /\ SwappedAt(index).pos + SwappedAt(index).neg = 0
    /\ \A cpu \in Cpus : percpu_counters[cpu].counters[index] = ZInt(M)

\* C14: in a counter allocated PER_CPU whose cpus each made M increments of an
\* in-range tuple, with global_sum_step > M, an aggregate of the tuple returns
\* 0 and gives the caller the value NrCpus * M.
C14_AggregateReturnsSum ==
    \A p \in Contexts : \A M \in 1..MaxIncs :
        (/\ AggregateReturned(p)
         /\ config.alloc = COUNTER_ALLOC_PER_CPU
         /\ ZLt(ZInt(M), global_sum_step)
         /\ EachCpuIncremented(loc[p].index, M))
        => /\ loc[p].ret = RET_OK
           /\ "value" \in loc[p].written
           /\ loc[p].value = ZInt(NrCpus * M)

\* C15: when the overflow bit of the cell of any layout (a cpu's or the global
\* one) is set before an aggregate starts, the aggregate that returns 0 gives
\* overflow true; the same for underflow.
C15_AggregatePropagatesBits ==
    \A p \in Contexts :
        (AggregateReturned(p) /\ loc[p].ret = RET_OK) =>
            /\ loc[p].of0 # {} => (loc[p].overflow /\ "overflow" \in loc[p].written)
            /\ loc[p].uf0 # {} => (loc[p].underflow /\ "underflow" \in loc[p].written)

\* an aggregate returned with the overflow bit of one cpu's cell alone set
\* before it started, the sum not wrapping
C15_Witness ==
    \E p \in Contexts :
        /\ AggregateReturned(p)
        /\ loc[p].ret = RET_OK
        /\ loc[p].of0 # {}
        /\ loc[p].of0 \subseteq Cpus
        /\ loc[p].overflow

RECURSIVE ZSeqSum(_)
ZSeqSum(seq) == IF seq = <<>> THEN ZZero ELSE ZAdd(Head(seq), ZSeqSum(Tail(seq)))

\* C16: an aggregate that returns 0 gives the caller the 64-bit wraparound sum
\* of the values it loaded, one from the global cell and one from each cpu's
\* cell (obs, each the content of the cell at its load).
C16_AggregateSumOfObserved ==
    \A p \in Contexts :
        (AggregateReturned(p) /\ loc[p].ret = RET_OK) =>
            /\ Len(loc[p].obs) = Cardinality(LayoutIds)
            /\ "value" \in loc[p].written
            /\ loc[p].value = ToSigned(ZSeqSum(loc[p].obs), 64)

(***************************************************************************)
(* Reads and adds running together (SpecConc).                             *)
(***************************************************************************)
CellOf(global, percpu, id, index) == LayoutOf(global, percpu, id).counters[index]

\* context p loads the cell in this step, as lttng_counter_read called by the
\* caller
ReadLoads(p) == pc[p] = "idle" /\ pc'[p] = "read_of" /\ loc'[p].op = "read"

\* C17: the value a read returns is the content the cell of the layout asked
\* for (the cpu's, or the global one for cpu -1) had at the read's load,
\* between its call and its return; and every content a cell ever has is the
\* initial 0 or the value n stored by a successful cmpxchg of an add.
C17_ReadReturnsHeldValue ==
    [][/\ \A p \in Contexts :
             /\ ReadLoads(p) =>
                   LET id == IF config.alloc = COUNTER_ALLOC_PER_CPU /\ loc'[p].rcpu >= 0
                             THEN loc'[p].rcpu ELSE GLOBAL_LAYOUT
                   IN  /\ loc'[p].value =
                             CellOf(global_counters, percpu_counters, id, loc'[p].index)
                       /\ "value" \in loc'[p].written
             /\ (loc[p].op = "read" /\ pc[p] \in {"read_of", "read_uf"})
                   => loc'[p].value = loc[p].value
       /\ \A id \in LayoutIds : \A index \in Offsets :
             CellOf(global_counters', percpu_counters', id, index)
                   # CellOf(global_counters, percpu_counters, id, index)
             => \E q \in Contexts :
                   /\ pc[q] = "cas" /\ pc'[q] = "bits"
                   /\ loc[q].layout = id /\ loc[q].index = index
                   /\ CellOf(global_counters', percpu_counters', id, index) = loc'[q].n
                   /\ InCellRange(loc'[q].n)]_vars

\* a read has returned the value an add stored, while the add that stored it
\* has not yet returned
C17_Witness ==
    \E p \in Contexts : \E q \in Contexts \ {p} :
        /\ ReadReturned(p)
        /\ loc[p].ret = RET_OK
        /\ pc[q] = "bits"
        /\ loc[q].layout = loc[p].layout
        /\ loc[q].index = loc[p].index
        /\ loc[p].value = loc[q].n
        /\ loc[p].value # ZZero

\* C18: under fair scheduling every add that has been called returns: with the
\* finitely many adds of a run, the cmpxchg loop of each is left.
C18_AddCompletes ==
    \A p \in 1..NrContexts :
        (loc[p].op = "add" /\ pc[p] \in {"cas", "bits", "migrate"}) ~> (pc[p] = "idle")

\* an add returned after a cmpxchg of its own had failed against another add
C18_Witness ==
    \E p \in Contexts :
        /\ AddReturned(p)
        /\ pc[p] = "idle"
        /\ loc[p].retried

(***************************************************************************)
(* Calls with tuples that were not clamped and with any cpu number, under  *)
(* SpecErr.                                                                *)
(***************************************************************************)

\* C19: an add never reaches a cell or a bit at an offset outside
\* 0..allocated_elem-1, whatever the tuple: when the offset it resolves is
\* outside that range the call warns and returns before the cell is loaded.
C19_AddStaysInsideLayout ==
    /\ oob = {}
    /\ \A p \in Contexts :
          (loc[p].op = "add" /\ loc[p].call >= 1 /\ loc[p].index \notin Offsets)
              => (pc[p] = "idle" /\ loc[p].warned)

ReadSelectorInvalid(cpu) ==
    IF config.alloc = COUNTER_ALLOC_PER_CPU THEN cpu >= NrCpus ELSE cpu >= 0

\* C20: a read with a cpu number that selects no layout (>= the number of cpus
\* in a PER_CPU counter, >= 0 in a GLOBAL one) returns an error and has stored
\* to none of value, overflow, underflow; a read with any other cpu number and
\* an offset in 0..allocated_elem-1 returns 0.
C20_ReadRejectsInvalidSelector ==
    \A p \in Contexts :
        ReadReturned(p) =>
            /\ ReadSelectorInvalid(loc[p].cpu)
                   => (loc[p].ret # RET_OK /\ loc[p].written = {})
            /\ (~ReadSelectorInvalid(loc[p].cpu) /\ loc[p].index \in Offsets)
                   => loc[p].ret = RET_OK

\* a read of an allocated offset was refused for its cpu number alone
C20_Witness ==
    \E p \in Contexts :
        /\ ReadReturned(p)
        /\ ReadSelectorInvalid(loc[p].cpu)
        /\ loc[p].index \in Offsets
        /\ loc[p].ret = EINVAL
        /\ loc[p].written = {}

(***************************************************************************)
(* Creation and destruction, under SpecCreate.                             *)
(***************************************************************************)
CreateReturned == handle # "none"

\* the configuration and step of the call are among those create must refuse
ConfigInvalid ==
    \/ args.bits_per_long # 64 /\ args.config.counter_size = COUNTER_SIZE_64_BIT
    \/ args.config.counter_size \notin CounterSizes
    \/ ZLt(args.global_sum_step, ZZero)
    \/ ZLt(SMax(CellBits(args.config.counter_size)), args.global_sum_step)

NothingRetained ==
    /\ heap = {}
    /\ \A o \in DOMAIN frees : frees[o] = 1

\* C21: create returns NULL and keeps no allocation when the cell width is
\* 64-bit on a platform that is not 64-bit, is none of the four widths, or the
\* step is negative or above the signed maximum of the width; with a width of
\* the four and a step in 0..signed maximum the step is accepted, and create
\* returns the counter unless an allocation fails.
C21_InvalidConfigRejected ==
    CreateReturned =>
        /\ ConfigInvalid => (handle = "NULL" /\ NothingRetained)
        /\ (~ConfigInvalid /\ args.fail = NoFail) => handle \in {"counter", "destroyed"}

\* create refused an 8-bit counter for a step of S8_MAX + 1 and freed the
\* counter it had allocated
C21_Witness ==
    /\ handle = "NULL"
    /\ args.fail = NoFail
    /\ args.config.counter_size = COUNTER_SIZE_8_BIT
    /\ args.global_sum_step = ZInt(128)
    /\ FreeCount(frees, COUNTER_OBJ) = 1
    /\ heap = {}

\* the allocation that was made to fail is one the call reaches
FailureInjected ==
    /\ ~ConfigInvalid
    /\ args.fail # NoFail
    /\ args.fail = PERCPU_OBJ => args.config.alloc = COUNTER_ALLOC_PER_CPU

\* C22: when an allocation of create fails, whichever it is, create returns
\* NULL and every allocation it made before has been freed exactly once: none
\* remains allocated.
C22_CreateAllOrNothing ==
    (CreateReturned /\ FailureInjected) => (handle = "NULL" /\ NothingRetained)

\* C23: a created counter owns the three arrays of the global layout in both
\* allocation modes, and the three arrays of each cpu's layout if and only if
\* it is allocated PER_CPU; creating a GLOBAL counter allocates none of them
\* and reaches no cpu's layout.
C23_PercpuStorageOnlyIfPerCpu ==
    handle = "counter" =>
        /\ LayoutObjs(GLOBAL_LAYOUT) \subseteq heap
        /\ \A cpu \in Cpus :
              IF config.alloc = COUNTER_ALLOC_PER_CPU
              THEN LayoutObjs(cpu) \subseteq heap
              ELSE LayoutObjs(cpu) \cap heap = {}
        /\ config.alloc = COUNTER_ALLOC_GLOBAL => touched = {}

\* C24: after destroy of a created counter, in either allocation mode, every
\* array of every layout, the dimension table and the counter have been freed
\* exactly once and nothing of the counter remains allocated.
C24_DestroyFreesAll ==
    handle = "destroyed" =>
        /\ NothingRetained
        /\ {COUNTER_OBJ, DIMENSIONS_OBJ} \cup LayoutObjs(GLOBAL_LAYOUT) \subseteq DOMAIN frees


(***************************************************************************)
(* What the cells of an offset add up to, with adds of any cpus running    *)
(* together (SpecConc).                                                    *)
(***************************************************************************)

\* the amount context p has taken off a cpu's cell at index and has not yet
\* swapped into the global cell
PendingOf(p, index) ==
    IF loc[p].op = "add" /\ loc[p].index = index
    THEN IF loc[p].call = 1 /\ pc[p] \in {"bits", "migrate"} THEN loc[p].move_sum
         ELSE IF loc[p].call = 2 /\ pc[p] = "cas" THEN loc[p].v
         ELSE ZZero
    ELSE ZZero

\* the global cell, every cpu's cell and the pending amounts at index
HeldAt(index) ==
    ZAdd(global_counters.counters[index],
         ZAdd(ZSeqSum([c \in 1..NrCpus |-> percpu_counters[c - 1].counters[index]]),
              ZSeqSum([p \in 1..NrContexts |-> PendingOf(p, index)])))

\* C25: in a counter allocated PER_CPU, at every offset and in every state,
\* the global cell plus the cpus' cells plus the amounts taken off a cpu's cell
\* and not yet swapped into the global one is congruent modulo 2^w to the sum
\* of the deltas swapped into the cpus' cells; with no add in progress the
\* cells alone are.
C25_Conservation ==
    config.alloc = COUNTER_ALLOC_PER_CPU =>
        \A index \in Offsets : CongruentModCell(HeldAt(index), SwappedAt(index).sum)

\* an amount is on its way to the global cell while another add is in its loop
C25_Witness ==
    /\ config.alloc = COUNTER_ALLOC_PER_CPU
    /\ \E p \in Contexts : \E q \in Contexts \ {p} :
          /\ PendingOf(p, loc[p].index) # ZZero
          /\ loc[q].op = "add" /\ pc[q] = "cas" /\ loc[q].index = loc[p].index
          /\ SwappedAt(loc[p].index).count >= 1

NoAddInProgress == \A p \in Contexts : pc[p] = "idle"

\* the integer sum of the global cell and of every cpu's cell at index
CellSum(index) ==
    IF config.alloc = COUNTER_ALLOC_PER_CPU
    THEN ZAdd(global_counters.counters[index],
              ZSeqSum([c \in 1..NrCpus |-> percpu_counters[c - 1].counters[index]]))
    ELSE global_counters.counters[index]

NoStickyBit(index) ==
    \A id \in LayoutIds :
        /\ ~test_bit(index, Layout(id).overflow_bitmap)
        /\ ~test_bit(index, Layout(id).underflow_bitmap)

\* C26: with no add in progress, at an offset where neither bit is set in the
\* global layout nor in any cpu's, the sum of the global cell and the cpus'
\* cells is the exact sum of the deltas added at the offset.
C26_FlagsFalseMeansExact ==
    NoAddInProgress =>
        \A index \in Offsets :
            NoStickyBit(index) => CellSum(index) = SwappedAt(index).sum

(***************************************************************************)
(* The migration decision of one add, under Spec.                          *)
(***************************************************************************)

\* context p is past the successful cmpxchg of a first call made with
\* COUNTER_SYNC_PER_CPU: loc[p] holds old, v, n and move_sum of that iteration
SwappedPerCpuSync(p) ==
    /\ loc[p].op = "add"
    /\ loc[p].call = 1
    /\ loc[p].sync = COUNTER_SYNC_PER_CPU
    /\ pc[p] \in {"bits", "migrate", "idle"}
    /\ ~loc[p].warned

WrappedSum(p) == ToSigned(ZAdd(loc[p].old, loc[p].v), CellBits(config.counter_size))

\* C27: with COUNTER_SYNC_PER_CPU and step S, n being old + v wrapped to the
\* cell: the add moves S/2 and stores n - S/2 exactly when n > S, moves -(S/2)
\* and stores n + S/2 exactly when n < -S, and otherwise (n = S and n = -S
\* included) moves 0 and stores n; the amount returned is the one of the
\* iteration whose cmpxchg succeeded.
C27_MigrationDecision ==
    \A p \in Contexts :
        SwappedPerCpuSync(p) =>
            LET n == WrappedSum(p)
                half == ZDiv2(global_sum_step)
            IN  /\ IF ZLt(global_sum_step, n)
                   THEN loc[p].move_sum = half /\ loc[p].n = ZSub(n, half)
                   ELSE IF ZLt(n, ZNeg(global_sum_step))
                        THEN loc[p].move_sum = ZNeg(half) /\ loc[p].n = ZAdd(n, half)
                        ELSE loc[p].move_sum = ZZero /\ loc[p].n = n
                /\ pc[p] = "bits" => Layout(loc[p].layout).counters[loc[p].index] = loc[p].n

\* an add whose wrapped sum is exactly the step, which is not 0, moved nothing
C27_Witness ==
    \E p \in Contexts :
        /\ SwappedPerCpuSync(p)
        /\ pc[p] = "bits"
        /\ global_sum_step # ZZero
        /\ WrappedSum(p) = global_sum_step
        /\ loc[p].move_sum = ZZero
        /\ loc[p].n = global_sum_step

(***************************************************************************)
(* The two calls of __lttng_counter_add_percpu, under SpecWide.            *)
(***************************************************************************)

CasFails(p) == pc[p] = "cas" /\ pc'[p] = "cas" /\ loc'[p].res # loc[p].res

CasSucceeds(p) == pc[p] = "cas" /\ pc'[p] = "bits"

\* C29: an add goes round its loop again only when the cell at its cmpxchg is
\* not the value it loaded, which happens only after the cmpxchg of another
\* add on the same cell succeeded since that load, so that of the adds that
\* contend on a cell one always gets through; and a cell changes in no other
\* way than by a cmpxchg that succeeds, to the n of that add.
C29_RetryOnlyWhenBeaten ==
    [][/\ \A p \in Contexts :
             /\ CasFails(p) =>
                   /\ CellOf(global_counters, percpu_counters,
                             loc[p].layout, loc[p].index) # loc[p].res
                   /\ loc[p].beaten
                   /\ cellVars' = cellVars
             /\ CasSucceeds(p) =>
                   CellOf(global_counters, percpu_counters,
                          loc[p].layout, loc[p].index) = loc[p].res
       /\ \A id \in LayoutIds : \A index \in Offsets :
             CellOf(global_counters', percpu_counters', id, index)
                   # CellOf(global_counters, percpu_counters, id, index)
                => \E q \in Contexts :
                      /\ CasSucceeds(q)
                      /\ loc[q].layout = id /\ loc[q].index = index
                      /\ CellOf(global_counters', percpu_counters', id, index) = loc'[q].n]_vars

\* an add that was beaten to its cell has gone round and loaded the cell anew
C29_Witness ==
    \E p \in Contexts :
        /\ loc[p].op = "add" /\ pc[p] = "cas"
        /\ loc[p].retried
        /\ ~loc[p].beaten
        /\ CellOf(global_counters, percpu_counters, loc[p].layout, loc[p].index) = loc[p].res

(***************************************************************************)
(* An aggregate among increments, under SpecAgg.                           *)
(***************************************************************************)

\* C30: in a counter allocated PER_CPU that receives increments only, the sum
\* an aggregate has accumulated (the global cell first, then each cpu's) is
\* never above the number of increments swapped into a cpu's cell so far,
\* however the increments and their migrations interleave with it.
C30_AggregateNeverOvercounts ==
    \A p \in Contexts :
        loc[p].op = "aggregate" =>
            ZLe(loc[p].sum, ZInt(SwappedAt(loc[p].index).count))

\* an aggregate loaded the global cell before a migration reached it and the
\* cpu's cell after the amount was taken off: it returned less than the count
C30_Witness ==
    \E p \in Contexts :
        /\ AggregateReturned(p)
        /\ loc[p].ret = RET_OK
        /\ SwappedAt(loc[p].index).pos >= 1
        /\ loc[p].obs[1] = ZZero
        /\ ZLt(ZZero, loc[p].sum)
        /\ ZLt(loc[p].sum, ZInt(SwappedAt(loc[p].index).count))
        /\ NoAddInProgress

(***************************************************************************)
(* What an operation leaves alone, under SpecErr and Spec.                 *)
(***************************************************************************)

\* the cell or a bit of the flat offset index differs between two layouts
DiffersAt(before, after, index) ==
    \/ after.counters[index] # before.counters[index]
    \/ test_bit(index, after.overflow_bitmap) # test_bit(index, before.overflow_bitmap)
    \/ test_bit(index, after.underflow_bitmap) # test_bit(index, before.underflow_bitmap)

\* the layouts an add called on cpu may change
AddLayouts(cpu) ==
    IF config.alloc = COUNTER_ALLOC_PER_CPU THEN {GLOBAL_LAYOUT, cpu} ELSE {GLOBAL_LAYOUT}

\* C31: an add changes nothing but the cell and the two bits at its flat
\* offset in the layout of its cpu and in the global layout: every other
\* offset, every other cpu's layout, the dimension table, the configuration,
\* the step and allocated_elem are as before.
C31_AddFrame ==
    [][\A p \in Contexts :
          loc'[p].op = "add" =>
              /\ counterVars' = counterVars
              /\ \A id \in LayoutIds : \A index \in Offsets :
                    DiffersAt(LayoutOf(global_counters, percpu_counters, id),
                              LayoutOf(global_counters', percpu_counters', id), index)
                       => (index = loc'[p].index /\ id \in AddLayouts(loc'[p].cpu))]_vars

\* C32: read and aggregate change no cell, no sticky bit, and nothing of the
\* dimension table, the configuration, the step or allocated_elem, whether
\* they return 0 or an error.
C32_ReadsChangeNothing ==
    [][\A p \in Contexts :
          loc'[p].op \in {"read", "aggregate"} =>
              (counterVars' = counterVars /\ cellVars' = cellVars)]_vars

\* a read returned 0 with the overflow flag and the bit it read is still set
C32_Witness ==
    \E p \in Contexts :
        /\ ReadReturned(p)
        /\ loc[p].ret = RET_OK
        /\ loc[p].overflow
        /\ test_bit(loc[p].index, Layout(loc[p].layout).overflow_bitmap)

(***************************************************************************)
(* Distinct clamped tuples and their offsets, under SpecIdx.               *)
(***************************************************************************)

\* every component of the tuple is an index of its dimension
AllInRange(dims, raw) ==
    \A i \in 1..Len(dims) : 0 <= raw[i] /\ raw[i] < dims[i].max_nr_elem

\* C33: two tuples that differ after clamping resolve to different flat
\* offsets; in particular a tuple with a component out of range never
\* resolves to the offset of a tuple whose components are all in range.
C33_ResolverInjective ==
    Resolved =>
        \A raw \in [1..Len(dimensions) -> RawIndexes] :
            LET other == Resolution(dimensions, raw)
            IN  /\ other.clamped # cur.clamped => other.offset # cur.offset
                /\ (AllInRange(dimensions, raw) /\ ~AllInRange(dimensions, cur.raw))
                       => other.offset # cur.offset

(***************************************************************************)
(* The dimension table over the life of a counter, under Spec.             *)
(***************************************************************************)

RECURSIVE SlotsProduct(_, _)
\* (N[from] + 2) * ... * (N[Len(N)] + 2)
SlotsProduct(N, from) ==
    IF from > Len(N) THEN 1 ELSE (N[from] + 2) * SlotsProduct(N, from + 1)

\* C34: on a created counter the innermost stride is 1, the stride of each
\* dimension is the product of (max_nr_elem + 2) over the dimensions inside
\* it, allocated_elem is that product over all dimensions, and max_nr_elem,
\* the strides and allocated_elem stay what create left through every add,
\* read and aggregate.
C34_StridesDerivedAndKept ==
    /\ Len(dimensions) = Len(MainMaxNrElem)
    /\ \A i \in 1..Len(dimensions) :
          /\ dimensions[i].max_nr_elem = MainMaxNrElem[i]
          /\ dimensions[i].stride = SlotsProduct(MainMaxNrElem, i + 1)
    /\ dimensions[Len(dimensions)].stride = 1
    /\ allocated_elem = SlotsProduct(MainMaxNrElem, 1)

\* the last of MaxOps operations was an add that changed a cell, the table
\* still <<5, 1>> and 30 cells
C34_Witness ==
    /\ nops = MaxOps
    /\ \E p \in Contexts :
          /\ AddReturned(p)
          /\ pc[p] = "idle"
          /\ Layout(loc[p].layout).counters[loc[p].index] # ZZero
    /\ dimensions[1].stride = 5
    /\ allocated_elem = 30

(***************************************************************************)
(* The order of the checks of a read, under SpecErr.                       *)
(***************************************************************************)

\* C35: a read whose flat offset, as a size_t, is not below allocated_elem
\* returns -EOVERFLOW, which is not the -EINVAL of an invalid cpu, whatever
\* the cpu passed, and stores none of value, overflow and underflow; an
\* aggregate on such an offset returns -EOVERFLOW from its read of the global
\* counter, with no cell loaded and no per-cpu counter reached.
C35_OffsetCheckedBeforeCpu ==
    /\ EOVERFLOW # EINVAL
    /\ \A p \in Contexts :
          /\ (ReadReturned(p) /\ loc[p].index \notin Offsets)
                => (loc[p].ret = EOVERFLOW /\ loc[p].written = {})
          /\ (AggregateReturned(p) /\ loc[p].index \notin Offsets)
                => /\ loc[p].ret = EOVERFLOW
                   /\ loc[p].obs = <<>>
                   /\ loc[p].rcpu = GLOBAL_LAYOUT
                   /\ "value" \notin loc[p].written

\* a read of offset 51 of 30 with a cpu number that is no cpu returned
\* -EOVERFLOW and stored nothing
C35_Witness ==
    \E p \in Contexts :
        /\ ReadReturned(p)
        /\ loc[p].index >= allocated_elem
        /\ ReadSelectorInvalid(loc[p].cpu)
        /\ loc[p].ret = EOVERFLOW
        /\ loc[p].written = {}

(***************************************************************************)
(* Two counters that differ in config->arithmetic alone, given the same    *)
(* calls by one context.  The first is the counter of the variables above, *)
(* with COUNTER_ARITHMETIC_OVERFLOW; the second is held in twin, with      *)
(* COUNTER_ARITHMETIC_SATURATE, and each call on it runs from entry to     *)
(* return in one step.                                                     *)
(***************************************************************************)
MaxArithOps == 3

ArithSteps == {ZInt(2)}

\* deltas that take a cell of the width past either limit
ArithDeltas(counter_size) ==
    {ZInt(1), SMax(CellBits(counter_size)), SMin(CellBits(counter_size))}

ArithReadTuples == {InRangeTuple, [raw |-> <<10, 1>>, validate |-> FALSE]}

\* the ledger before any call
FreshLedger ==
    [heap |-> {}, frees |-> <<>>, foreign |-> 0,
     ptrs |-> [id \in {GLOBAL_LAYOUT} \cup Cpus |-> ZeroedPtrs], touched |-> {}]

\* struct lib_counter as a value
ThisCounter ==
    [config |-> config, global_sum_step |-> global_sum_step,
     dimensions |-> dimensions, allocated_elem |-> allocated_elem,
     global_counters |-> global_counters, percpu_counters |-> percpu_counters]

\* the sum held at S<N>_MAX / S<N>_MIN when config->arithmetic asks for it
__lttng_counter_add_saturating(c, alloc, sync, cpu, dimension_indexes, v) ==
    LET index == lttng_counter_get_index(c.dimensions, dimension_indexes)
        bits == CellBits(c.config.counter_size)
    IN  IF index >= c.allocated_elem
        THEN [counter |-> c, move_sum |-> ZZero]
        ELSE LET layout == IF alloc = COUNTER_ALLOC_PER_CPU
                           THEN c.percpu_counters[cpu] ELSE c.global_counters
                 old == layout.counters[index]
                 sum == ZAdd(old, v)
                 held == IF ZLt(SMax(bits), sum) THEN SMax(bits)
                         ELSE IF ZLt(sum, SMin(bits)) THEN SMin(bits) ELSE sum
                 body == IF c.config.arithmetic = COUNTER_ARITHMETIC_SATURATE
                         THEN LoopBody(sync, held, ZZero, bits, c.global_sum_step)
                         ELSE LoopBody(sync, old, v, bits, c.global_sum_step)
                 marked == MarkBits([layout EXCEPT !.counters[index] = body.n], index,
                               ClassifyOverflow(c.config.counter_size, v, old, body.n),
                               ClassifyUnderflow(c.config.counter_size, v, old, body.n))
             IN  [counter |-> IF alloc = COUNTER_ALLOC_PER_CPU
                              THEN [c EXCEPT !.percpu_counters[cpu] = marked]
                              ELSE [c EXCEPT !.global_counters = marked],
                  move_sum |-> body.move_sum]

\* __lttng_counter_add on the counter c, run from entry to return with no
\* other context between its load of the cell and its cmpxchg (the loop body
\* runs once), for an index that is not negative: the counter it leaves and
\* the move_sum it returns
__lttng_counter_add(c, alloc, sync, cpu, dimension_indexes, v) ==
    LET index == lttng_counter_get_index(c.dimensions, dimension_indexes)
        bits == CellBits(c.config.counter_size)
    IN  IF index >= c.allocated_elem
        THEN [counter |-> c, move_sum |-> ZZero]
        ELSE LET layout == IF alloc = COUNTER_ALLOC_PER_CPU
                           THEN c.percpu_counters[cpu] ELSE c.global_counters
                 old == layout.counters[index]
                 body == LoopBody(sync, old, v, bits, c.global_sum_step)
                 marked == MarkBits([layout EXCEPT !.counters[index] = body.n], index,
                               ClassifyOverflow(c.config.counter_size, v, old, body.n),
                               ClassifyUnderflow(c.config.counter_size, v, old, body.n))
             IN  [counter |-> IF alloc = COUNTER_ALLOC_PER_CPU
                              THEN [c EXCEPT !.percpu_counters[cpu] = marked]
                              ELSE [c EXCEPT !.global_counters = marked],
                  move_sum |-> body.move_sum]

\* lttng_counter_add -> __lttng_counter_add_percpu / __lttng_counter_add_global
lttng_counter_add(c, cpu, dimension_indexes, v) ==
    LET first == __lttng_counter_add(c, c.config.alloc, c.config.sync, cpu,
                                 dimension_indexes, v)
    IN  IF c.config.alloc = COUNTER_ALLOC_PER_CPU /\ first.move_sum # ZZero
        THEN __lttng_counter_add(first.counter, COUNTER_ALLOC_GLOBAL, COUNTER_SYNC_GLOBAL,
                             cpu, dimension_indexes, first.move_sum).counter
        ELSE first.counter

\* what no read has stored
NoReadResult ==
    [ret |-> RET_OK, value |-> ZZero, overflow |-> FALSE, underflow |-> FALSE,
     written |-> {}]

\* lttng_counter_read on the counter c: its return value and what it stores
lttng_counter_read(c, cpu, dimension_indexes) ==
    LET index == lttng_counter_get_index(c.dimensions, dimension_indexes)
        per_cpu == c.config.alloc = COUNTER_ALLOC_PER_CPU
    IN  IF index < 0 \/ index >= c.allocated_elem      \* size_t index
        THEN [NoReadResult EXCEPT !.ret = EOVERFLOW]
        ELSE IF (per_cpu /\ cpu >= 0 /\ cpu >= NrCpus) \/ (~per_cpu /\ cpu >= 0)
        THEN [NoReadResult EXCEPT !.ret = EINVAL]
        ELSE LET layout == IF per_cpu /\ cpu >= 0
                           THEN c.percpu_counters[cpu] ELSE c.global_counters
             IN  [ret |-> RET_OK,
                  value |-> layout.counters[index],
                  overflow |-> test_bit(index, layout.overflow_bitmap),
                  underflow |-> test_bit(index, layout.underflow_bitmap),
                  written |-> {"value", "overflow", "underflow"}]

\* lttng_counter_create of the second counter, with the configuration and the
\* step of the first but COUNTER_ARITHMETIC_SATURATE
TwinCreate ==
    /\ twin = NoTwin
    /\ \E kept \in BOOLEAN :
          twin' = [created |->
                       lttng_counter_create(FreshLedger,
                           [config EXCEPT !.arithmetic = COUNTER_ARITHMETIC_SATURATE],
                           global_sum_step, 64, NoFail, kept).counter,
                   first_created |->
                       lttng_counter_create(FreshLedger, config, global_sum_step, 64,
                                            NoFail, kept).counter,
                   counter |-> [ThisCounter EXCEPT
                                   !.config.arithmetic = COUNTER_ARITHMETIC_SATURATE],
                   nops |-> 0,
                   result |-> NoReadResult]
    /\ UNCHANGED <<counterVars, cellVars, ctxVars, ghostVars, idxVars, lifeVars>>

\* the call the first counter has returned from, made on the second
TwinCall ==
    /\ twin # NoTwin
    /\ twin.nops < nops
    /\ \E p \in DOMAIN pc :
          /\ pc[p] = "idle"
          /\ twin' =
                IF loc[p].op = "add"
                THEN [twin EXCEPT !.nops = nops,
                                  !.result = NoReadResult,
                                  !.counter = lttng_counter_add(@, loc[p].cpu,
                                                  loc[p].dimension_indexes, loc[p].delta)]
                ELSE [twin EXCEPT !.nops = nops,
                                  !.result = lttng_counter_read(twin.counter, loc[p].cpu,
                                                 loc[p].dimension_indexes)]
    /\ UNCHANGED <<counterVars, cellVars, ctxVars, ghostVars, idxVars, lifeVars>>

\* the second counter has been given every call the first has
TwinInStep == twin # NoTwin /\ twin.nops = nops

InitArith ==
    \E cfg \in Configs : \E step \in ArithSteps :
        /\ StepAccepted(cfg.counter_size, step)
        /\ Created(cfg, MainMaxNrElem, step, 1)

NextArith ==
    \/ TwinCreate
    \/ TwinCall
    \/ \E p \in DOMAIN pc :
          \/ /\ TwinInStep
             /\ nops < MaxArithOps
             /\ \E cpu \in CallerCpus, v \in ArithDeltas(config.counter_size) :
                   AddBegin(p, cpu, InRangeTuple.raw, InRangeTuple.validate, v)
          \/ AddCas(p)
          \/ AddBits(p)
          \/ AddMigrate(p)
          \/ /\ TwinInStep
             /\ nops < MaxArithOps
             /\ \E cpu \in ReadCpus, t \in ArithReadTuples :
                   ReadBegin(p, cpu, t.raw, t.validate)
          \/ ReadOverflow(p)
          \/ ReadUnderflow(p)

SpecArith == InitArith /\ [][NextArith]_vars

\* C36: COUNTER_ARITHMETIC_SATURATE changes nothing.  lttng_counter_create
\* returns a counter for either mode, and after the same adds and reads the
\* two counters hold the same cells and the same overflow and underflow
\* bits in every layout, and the last read has returned the same value,
\* stored the same outputs and the same flags.
C36_ArithmeticModeIgnored ==
    twin # NoTwin =>
        /\ config.arithmetic = COUNTER_ARITHMETIC_OVERFLOW
        /\ twin.counter.config =
              [config EXCEPT !.arithmetic = COUNTER_ARITHMETIC_SATURATE]
        /\ twin.created /\ twin.first_created
        /\ \A p \in Contexts :
              (pc[p] = "idle" /\ twin.nops = nops) =>
                  /\ twin.counter.global_counters = global_counters
                  /\ twin.counter.percpu_counters = percpu_counters
                  /\ loc[p].op = "read" =>
                        twin.result =
                            [ret |-> loc[p].ret, value |-> loc[p].value,
                             overflow |-> loc[p].overflow,
                             underflow |-> loc[p].underflow,
                             written |-> loc[p].written]

\* both counters were taken past S<N>_MAX by an add of 1 and a read of each
\* has returned S<N>_MIN with the overflow flag
C36_Witness ==
    /\ TwinInStep
    /\ \E p \in Contexts :
          /\ ReadReturned(p)
          /\ loc[p].ret = RET_OK
          /\ loc[p].value = SMin(CellBits(config.counter_size))
          /\ loc[p].overflow
          /\ twin.result.value = SMin(CellBits(config.counter_size))
          /\ twin.result.overflow

====
